---------------------------- MODULE Spec2Model ----------------------------
(***************************************************************************)
(* Model of the LLM provider gateway and streaming completion engine of    *)
(* marie_chat (backend/app): the agent and Ollama stream parsers, the      *)
(* completion orchestrator (LLMService._stream_completion), the realtime   *)
(* bridge (sockets/chat_events.py), the provider registry and the model    *)
(* catalog (services/provider_factory.py).                                 *)
(*                                                                         *)
(* Text is a sequence of tokens; the empty string is <<>> and string      *)
(* concatenation is \o.                                                    *)
(***************************************************************************)
EXTENDS Integers, Sequences, FiniteSets, TLC

\* ------------------------------------------------------------------ bounds
\* Longest upstream response body, in lines.
MaxLines == 3
\* stop_generation requests handled during one run.
MaxStops == 2
\* list_all_models calls during one run.
MaxCalls == 2
\* Clock advances during one run.
MaxTicks == 3
\* initialize_providers calls (after the one at import) during one run.
MaxReinits == 1
\* get_all_health_status calls during one run.
MaxHealthCalls == 1
\* Calls made on one AgentProvider instance during one run.
MaxOps == 3
\* Longest message history handed to _prepare_payload.
MaxHistory == 2
\* Longest reply to the follow-up prompt, in lines.
MaxReplyLines == 6

\* generate_follow_ups: `return questions[:5]`
MaxFollowUps == 5

\* ModelRegistry._cache_ttl, in seconds.
CacheTTL == 300

VARIABLES
    \* --- adapter under test (SpecAdapter)
    protocol,       \* "openai" | "langserve" | "ollama": the stream parser applied
    body,           \* the upstream response body: a sequence of lines
    emitted,        \* the adapter's output for body, or NoOutput before it ran
    \* --- one streaming turn (SpecStream)
    upstream,       \* what the conversation's adapter produces for this turn
    convExists,     \* get_conversation finds the conversation
    providerRegistered, \* provider_factory.get_provider finds the provider
    pc,             \* position of process_chat_message_async
    stopped_generations, \* chat_events.stopped_generations
    events,         \* what was emitted to the conversation room, in order
    stops,          \* stop_generation requests handled so far
    messages,       \* the marie_messages index, oldest first
    gen,            \* the _stream_completion generator object
    chunk,          \* the bridge's loop variable
    bridge_content, \* the bridge's full_content
    \* --- registry and catalog (SpecRegistry, SpecCatalog, SpecHealth)
    providers,      \* ProviderFactory._providers
    configs,        \* ProviderFactory._configs
    model_cache,    \* ModelRegistry._model_cache
    last_refresh,   \* ModelRegistry._last_refresh
    now,            \* time.time()
    ticks,          \* clock advances so far
    fetchCalls,     \* list_models calls made on each provider id
    lam,            \* the running list_all_models call
    calls,          \* list_all_models calls started so far
    init,           \* the running initialize_providers call
    reinits,        \* initialize_providers calls started so far
    observed,       \* what a concurrent reader last saw
    health,         \* the running get_all_health_status call
    healthCalls,    \* get_all_health_status calls started so far
    \* --- search over the catalog (SpecSearch)
    search,         \* the running search_models call
    \* --- one AgentProvider instance and its remote service (SpecDetect)
    base_url,       \* whether the instance has a base_url configured
    agent_types,    \* AgentProvider._agent_types
    probes,         \* detection runs (past the cache) made for each model id
    chats,          \* chat_completion calls made for each model id
    lastCall,       \* the last call made on the instance
    ops,            \* calls made on the instance so far
    \* --- one _prepare_payload call (SpecPayload)
    input_schema,   \* what _get_input_schema returns for the model
    chat_messages,  \* the messages argument
    kwargs,         \* the names of the pass-through parameters
    payload,        \* the payload built, or NoPayload before the call
    \* --- follow-up generation at the end of a turn (SpecFollowUps)
    fuFound,        \* get_provider finds the provider when generate_follow_ups runs
    fuReply,        \* what the follow-up completion produces
    fuResult,       \* what generate_follow_ups returned, once it ran
    \* --- one request to the REST streaming endpoint (SpecRest)
    rest,           \* position, loop variable and frames sent of generate()
    \* --- one chat_completion call up to its dispatch (SpecRegenerate)
    regen,          \* the call's arguments, locals and prompt
    \* --- one non-streaming completion (SpecNonStream)
    nonstream,      \* position, result and steps of _non_stream_completion
    \* --- one AgentProvider.list_models call (SpecListModels)
    listing,        \* what the remote service answers to the two probes
    listed,         \* what list_models returned, once it ran
    \* --- the turns of one conversation that run side by side (SpecTurns)
    turns           \* per turn: position, chunks to come, chunks forwarded, aborted

adapterVars == <<protocol, body, emitted>>
streamVars == <<upstream, convExists, providerRegistered, pc, stopped_generations,
                events, stops, messages, gen, chunk, bridge_content>>
registryVars == <<providers, configs, init, reinits, observed>>
catalogRest == <<now, ticks, fetchCalls, lam, calls>>
catalogVars == <<model_cache, last_refresh, catalogRest>>
healthVars == <<health, healthCalls>>
searchVars == <<search>>
detectVars == <<base_url, agent_types, probes, chats, lastCall, ops>>
payloadVars == <<input_schema, chat_messages, kwargs, payload>>
followUpVars == <<fuFound, fuReply, fuResult>>
callVars == <<rest, regen, nonstream, listing, listed>>
turnVars == <<turns>>
\* What no action of the specifications above touches.
laterVars == <<searchVars, detectVars, payloadVars, followUpVars, callVars>>
vars == <<adapterVars, streamVars, registryVars, catalogVars, healthVars, laterVars, turnVars>>
notAdapterVars == <<streamVars, registryVars, catalogVars, healthVars, laterVars, turnVars>>
notStreamVars == <<adapterVars, registryVars, catalogVars, healthVars, laterVars, turnVars>>
notFactoryVars == <<adapterVars, streamVars, healthVars, laterVars, turnVars>>
notHealthVars == <<adapterVars, streamVars, registryVars, catalogVars, laterVars, turnVars>>
notSearchVars == <<adapterVars, streamVars, healthVars, detectVars, payloadVars, followUpVars,
                   callVars, turnVars>>
notDetectVars == <<adapterVars, streamVars, registryVars, catalogVars, healthVars, searchVars,
                   payloadVars, followUpVars, callVars, turnVars>>
notPayloadVars == <<adapterVars, streamVars, registryVars, catalogVars, healthVars, searchVars,
                    detectVars, followUpVars, callVars, turnVars>>
notRestVars == <<adapterVars, registryVars, catalogVars, healthVars, searchVars, detectVars,
                 payloadVars, followUpVars, turnVars>>
notTurnVars == <<adapterVars, registryVars, catalogVars, healthVars, laterVars>>

\* ------------------------------------------------------------------ text
EmptyText == <<>>
Hi == <<"Hi">>
\* f"Error streaming from OpenAI agent: {e}"
ErrOpenAI == <<"Error streaming from OpenAI agent">>
\* f"\n\nError: {e}"
ErrOpenAITail == <<"Error">>
\* f"Error streaming from LangServe: {e}"
ErrLangServe == <<"Error streaming from LangServe">>
\* "Error: Agent Provider base URL not configured."
ErrNotConfigured == <<"Error: Agent Provider base URL not configured.">>

\* ChatCompletionChunk(content, done): the fields the orchestrator reads.
ChatCompletionChunk(content, done) == [content |-> content, done |-> done]

\* ------------------------------------------------- upstream response bodies
(***************************************************************************)
(* A line of an upstream streaming body, by what the parsers distinguish:  *)
(*   skip     an empty line or an SSE comment (": ...")                    *)
(*   nodata   a non-empty line that does not start with "data: "           *)
(*   marker   data: [DONE]                                                 *)
(*   badjson  data: followed by text json.loads rejects                    *)
(*   choices  data: {"choices":[{"delta":{"content": text}}]}              *)
(*   str      data: "text"            (a bare JSON string)                 *)
(*   ops      data: {"ops":[{"path":".../content","value": text}]}         *)
(*   content  data: {"content": text}                                      *)
(*   object   data: {...} with none of the keys above                      *)
(*   scalar   data: a JSON number, list or null                            *)
(*   opsmiss  data: {"ops":[{"path":"/x",...}], "content": text}           *)
(*   opsboth  data: {"ops":[{"path":".../content","value": text}],         *)
(*                   "content": "Yo"}                                      *)
(*   opsbad   data: {"ops":[1]}       (an entry of ops is not an object)   *)
(*   neterr   the transport raises here (status error, timeout, reset)     *)
(***************************************************************************)
SSELine(kind, text) == [kind |-> kind, text |-> text]
SSELines ==
    { SSELine(k, EmptyText) : k \in {"skip", "nodata", "marker", "badjson", "object", "neterr"} }
    \cup { SSELine(k, Hi) : k \in {"choices", "str", "ops", "content"} }
    \cup { SSELine("choices", EmptyText) }
    \cup { SSELine("scalar", EmptyText), SSELine("opsbad", EmptyText),
           SSELine("opsmiss", Hi), SSELine("opsboth", Hi) }

(***************************************************************************)
(* A line of an Ollama /api/chat streaming body (newline-delimited JSON):  *)
(*   skip     an empty line                                                *)
(*   badjson  text json.loads rejects                                      *)
(*   nomsg    a JSON object without message.content (done or not)          *)
(*   msg      {"message":{"content": text}, "done": done}                  *)
(*   neterr   the transport raises here                                    *)
(***************************************************************************)
OllamaLine(kind, text, done) == [kind |-> kind, text |-> text, done |-> done]
OllamaLines ==
    { OllamaLine(k, EmptyText, FALSE) : k \in {"skip", "badjson", "neterr"} }
    \cup { OllamaLine("nomsg", EmptyText, d) : d \in BOOLEAN }
    \cup { OllamaLine("msg", t, d) : t \in {Hi, EmptyText}, d \in BOOLEAN }

SeqsUpTo(S, n) == UNION { [1..k -> S] : k \in 0..n }

\* ------------------------------------------------------- AgentProvider
\* data.get("choices", [{}])[0].get("delta", {}).get("content", "")
OpenAIDeltaContent(line) ==
    IF line.kind = "choices" THEN line.text ELSE EmptyText

\* _extract_content_from_chunk raises: op.get on an entry of ops that is not
\* a dict (AttributeError).
ExtractRaises(line) == line.kind = "opsbad"

\* AgentProvider._extract_content_from_chunk: format 0 (a str), format 1 (the
\* value of the first op whose path ends with /content), format 2 (the
\* top-level content), else "".
_extract_content_from_chunk(line) ==
    IF line.kind = "str" THEN line.text
    ELSE IF line.kind \in {"ops", "opsboth"} THEN line.text
    ELSE IF line.kind \in {"content", "opsmiss"} THEN line.text
    ELSE EmptyText

(***************************************************************************)
(* The `async for line in response.aiter_lines()` loop of _stream_openai,  *)
(* from line i on, with the chunks yielded so far in acc. how is how the   *)
(* loop was left: "eof" (body exhausted), "break" (after [DONE]) or "exc"  *)
(* (an exception other than JSONDecodeError).                              *)
(***************************************************************************)
RECURSIVE OpenAILoop(_, _, _)
OpenAILoop(lines, i, acc) ==
    IF i > Len(lines) THEN [chunks |-> acc, how |-> "eof"]
    ELSE LET line == lines[i] IN
      CASE line.kind = "neterr" -> [chunks |-> acc, how |-> "exc"]
        [] line.kind \in {"skip", "nodata", "badjson"} -> OpenAILoop(lines, i + 1, acc)
        [] line.kind = "marker" ->
             [chunks |-> Append(acc, ChatCompletionChunk(EmptyText, TRUE)), how |-> "break"]
        \* json.loads gives a str, a number, a list or None, which have no
        \* .get: AttributeError
        [] line.kind \in {"str", "scalar"} -> [chunks |-> acc, how |-> "exc"]
        [] OTHER ->
             IF OpenAIDeltaContent(line) # EmptyText
             THEN OpenAILoop(lines, i + 1,
                             Append(acc, ChatCompletionChunk(OpenAIDeltaContent(line), FALSE)))
             ELSE OpenAILoop(lines, i + 1, acc)

\* What _stream_openai yields once its loop was left without an exception.
OpenAIFinalDone(loop) == Append(loop.chunks, ChatCompletionChunk(EmptyText, TRUE))

\* What _stream_openai yields in its except branch.
OpenAIOnError(loop) ==
    loop.chunks \o << ChatCompletionChunk(ErrOpenAI, TRUE),
                      ChatCompletionChunk(ErrOpenAITail, TRUE) >>

\* AgentProvider._stream_openai: the chunk sequence for an upstream body.
_stream_openai(lines) ==
    LET loop == OpenAILoop(lines, 1, <<>>) IN
    IF loop.how = "exc" THEN OpenAIOnError(loop) ELSE OpenAIFinalDone(loop)

\* The aiter_lines loop of _stream_langserve.
RECURSIVE LangServeLoop(_, _, _)
LangServeLoop(lines, i, acc) ==
    IF i > Len(lines) THEN [chunks |-> acc, how |-> "eof"]
    ELSE LET line == lines[i] IN
      CASE line.kind = "neterr" -> [chunks |-> acc, how |-> "exc"]
        [] line.kind \in {"skip", "nodata", "badjson"} -> LangServeLoop(lines, i + 1, acc)
        [] line.kind = "marker" ->
             [chunks |-> Append(acc, ChatCompletionChunk(EmptyText, TRUE)), how |-> "break"]
        [] ExtractRaises(line) -> [chunks |-> acc, how |-> "exc"]
        [] OTHER ->
             IF _extract_content_from_chunk(line) # EmptyText
             THEN LangServeLoop(lines, i + 1,
                     Append(acc, ChatCompletionChunk(_extract_content_from_chunk(line), FALSE)))
             ELSE LangServeLoop(lines, i + 1, acc)

\* What _stream_langserve yields once its loop was left without an exception.
LangServeFinalDone(loop) == Append(loop.chunks, ChatCompletionChunk(EmptyText, TRUE))

\* AgentProvider._stream_langserve: the chunk sequence for an upstream body.
_stream_langserve(lines) ==
    LET loop == LangServeLoop(lines, 1, <<>>) IN
    IF loop.how = "exc"
    THEN Append(loop.chunks, ChatCompletionChunk(ErrLangServe, TRUE))
    ELSE LangServeFinalDone(loop)

\* ------------------------------------------------------- OllamaProvider
(***************************************************************************)
(* OllamaProvider._stream_chat as re-emitted by chat_completion(stream):   *)
(* raises is TRUE when the exception is re-raised out of the generator.    *)
(***************************************************************************)
RECURSIVE _stream_chat(_, _, _)
_stream_chat(lines, i, acc) ==
    IF i > Len(lines) THEN [chunks |-> acc, raises |-> FALSE]
    ELSE LET line == lines[i] IN
      CASE line.kind = "neterr" -> [chunks |-> acc, raises |-> TRUE]
        [] line.kind \in {"skip", "badjson", "nomsg"} -> _stream_chat(lines, i + 1, acc)
        [] OTHER ->
             IF line.done
             THEN [chunks |-> Append(acc, ChatCompletionChunk(line.text, TRUE)),
                   raises |-> FALSE]
             ELSE _stream_chat(lines, i + 1, Append(acc, ChatCompletionChunk(line.text, FALSE)))

\* ------------------------------------------------- adapter output, by kind
NoOutput == [chunks |-> <<>>, raises |-> FALSE, ran |-> FALSE]
Output(chunks, raises) == [chunks |-> chunks, raises |-> raises, ran |-> TRUE]

\* provider.chat_completion(stream=True) for an upstream body.
AdapterStream(proto, lines) ==
    CASE proto = "openai" -> Output(_stream_openai(lines), FALSE)
      [] proto = "langserve" -> Output(_stream_langserve(lines), FALSE)
      [] proto = "ollama" ->
           Output(_stream_chat(lines, 1, <<>>).chunks, _stream_chat(lines, 1, <<>>).raises)
      \* AgentProvider.chat_completion without a base_url
      [] OTHER -> Output(<<ChatCompletionChunk(ErrNotConfigured, FALSE)>>, FALSE)

Protocols == {"openai", "langserve", "ollama", "unconfigured"}
BodiesOf(proto) ==
    CASE proto = "ollama" -> SeqsUpTo(OllamaLines, MaxLines)
      [] proto = "unconfigured" -> {<<>>}
      [] OTHER -> SeqsUpTo(SSELines, MaxLines)


\* Every output an adapter can produce for a body of at most MaxLines lines.
AdapterOutputs == UNION { { AdapterStream(p, b) : b \in BodiesOf(p) } : p \in Protocols }


\* provider.chat_completion(model, messages, stream=True), consumed to its end.
RunAdapter ==
    /\ ~emitted.ran
    /\ emitted' = AdapterStream(protocol, body)
    /\ UNCHANGED <<protocol, body>>
    /\ UNCHANGED notAdapterVars

\* ------------------------------------------------ LLMService._stream_completion
\* The conversation the turn belongs to, and another one.
ConvId == "c1"
Convs == {"c1", "c2"}

\* A stored message; turn is "this" for the turn in progress, "earlier" otherwise.
Message(role, content, turn, follow_ups) ==
    [role |-> role, content |-> content, turn |-> turn, follow_ups |-> follow_ups]

\* self.save_message(role="assistant", content=full_content, metadata=...)
SaveAssistant(msgs, content, follow_ups) ==
    Append(msgs, Message("assistant", content, "this", follow_ups))

\* The dict _stream_completion yields for an adapter chunk.
Yielded(c) == [content |-> c.content, done |-> c.done, follow_ups |-> FALSE]
\* The special chunk that carries the follow-ups.
FollowUpChunk == [content |-> EmptyText, done |-> TRUE, follow_ups |-> TRUE]
NoChunk == [content |-> EmptyText, done |-> FALSE, follow_ups |-> FALSE]

(***************************************************************************)
(* The generator object: pc is where it is suspended ("none" before        *)
(* chat_completion returned it, "closed" once it returned or raised), idx  *)
(* the number of adapter chunks consumed, last_done the done flag of the   *)
(* chunk it yielded last; "raised" is closed by an exception. flushes      *)
(* counts the saves made by the fallback after the loop, invoked is        *)
(* whether provider.chat_completion was called, and log lists, in order,   *)
(* the steps taken to persist: "follow_ups" (generate_follow_ups awaited), *)
(* "save" (save_message) and "extract" (the _extract_and_save_memories     *)
(* task created).                                                          *)
(***************************************************************************)
NoGen == [pc |-> "none", idx |-> 0, full_content |-> EmptyText, saved |-> FALSE,
          last_done |-> FALSE, flushes |-> 0, invoked |-> FALSE, log |-> <<>>]
Resumed(g, msgs, out, c) == [gen |-> g, messages |-> msgs, out |-> out, chunk |-> c]
Closed(g) == [g EXCEPT !.pc = "closed"]
Raised(g) == [g EXCEPT !.pc = "raised"]

\* A done block that saves before it asks for follow-ups.
DoneStepsSaveFirst == <<"save", "follow_ups", "extract">>

\* The steps of the "if chunk.done:" block, in the order of its statements.
DoneSteps == <<"follow_ups", "save", "extract">>
\* The steps of the final check after the loop.
FlushSteps == <<"follow_ups", "save">>

\* FinalFlush without its "not saved" test.
FinalFlushIgnoringSaved(g, msgs, follow_ups) ==
    IF g.full_content # EmptyText
    THEN Resumed(Closed([g EXCEPT !.flushes = @ + 1, !.log = @ \o FlushSteps]),
                 SaveAssistant(msgs, g.full_content, follow_ups), "end", NoChunk)
    ELSE Resumed(Closed(g), msgs, "end", NoChunk)

\* After the loop: "if not saved and full_content:" and what follows it.
\* follow_ups is whether generate_follow_ups returns a non-empty list.
FinalFlush(g, msgs, follow_ups) ==
    IF ~g.saved /\ g.full_content # EmptyText
    THEN IF follow_ups
         THEN Resumed([g EXCEPT !.pc = "afterFinalFollowUps", !.flushes = @ + 1,
                                !.log = @ \o FlushSteps],
                      SaveAssistant(msgs, g.full_content, TRUE), "yield", FollowUpChunk)
         ELSE Resumed(Closed([g EXCEPT !.flushes = @ + 1, !.log = @ \o FlushSteps]),
                      SaveAssistant(msgs, g.full_content, FALSE), "end", NoChunk)
    ELSE Resumed(Closed(g), msgs, "end", NoChunk)

\* A loop head that persists the message as soon as it holds the done chunk,
\* before yielding it.
NextChunkSavingAtDone(g, msgs, follow_ups) ==
    IF g.idx < Len(upstream.chunks)
    THEN LET c == upstream.chunks[g.idx + 1] IN
         Resumed([g EXCEPT !.pc = "afterYield", !.idx = @ + 1, !.invoked = TRUE,
                           !.full_content = @ \o c.content, !.last_done = c.done],
                 IF c.done THEN SaveAssistant(msgs, g.full_content \o c.content, FALSE)
                 ELSE msgs,
                 "yield", Yielded(c))
    ELSE IF upstream.raises
    THEN Resumed(Raised([g EXCEPT !.invoked = TRUE]), msgs, "raise", NoChunk)
    ELSE Resumed(Closed([g EXCEPT !.invoked = TRUE]), msgs, "end", NoChunk)

\* The head of `async for chunk in provider.chat_completion(...)`, up to the yield.
NextChunk(g, msgs, follow_ups) ==
    IF g.idx < Len(upstream.chunks)
    THEN LET c == upstream.chunks[g.idx + 1] IN
         Resumed([g EXCEPT !.pc = "afterYield", !.idx = @ + 1, !.invoked = TRUE,
                           !.full_content = @ \o c.content, !.last_done = c.done],
                 msgs, "yield", Yielded(c))
    ELSE IF upstream.raises
    THEN Resumed(Raised([g EXCEPT !.invoked = TRUE]), msgs, "raise", NoChunk)
    ELSE FinalFlush([g EXCEPT !.invoked = TRUE], msgs, follow_ups)

\* After the yield of an adapter chunk: "if chunk.done:" and what follows it.
AfterYield(g, msgs, follow_ups) ==
    IF g.last_done
    THEN IF follow_ups
         THEN Resumed([g EXCEPT !.pc = "afterFollowUps", !.log = @ \o DoneSteps],
                      SaveAssistant(msgs, g.full_content, TRUE), "yield", FollowUpChunk)
         ELSE NextChunk([g EXCEPT !.saved = TRUE, !.log = @ \o DoneSteps],
                        SaveAssistant(msgs, g.full_content, FALSE), follow_ups)
    ELSE NextChunk(g, msgs, follow_ups)

\* A generator that goes to the adapter without looking the provider up.
StreamCompletionWithoutLookup(g, msgs, follow_ups) ==
    CASE g.pc = "start" -> NextChunk(g, msgs, follow_ups)
      [] g.pc = "afterYield" -> AfterYield(g, msgs, follow_ups)
      [] g.pc = "afterFollowUps" -> NextChunk([g EXCEPT !.saved = TRUE], msgs, follow_ups)
      [] OTHER -> Resumed(Closed(g), msgs, "end", NoChunk)

\* One __anext__ of the generator: from where it is suspended to its next
\* yield, its return ("end") or an exception ("raise").
_stream_completion(g, msgs, follow_ups) ==
    CASE g.pc = "start" ->
           IF ~providerRegistered
           THEN Resumed(Raised(g), msgs, "raise", NoChunk)
           ELSE NextChunk(g, msgs, follow_ups)
      [] g.pc = "afterYield" -> AfterYield(g, msgs, follow_ups)
      [] g.pc = "afterFollowUps" -> NextChunk([g EXCEPT !.saved = TRUE], msgs, follow_ups)
      [] OTHER -> Resumed(Closed(g), msgs, "end", NoChunk)

\* ------------------------------------------------ LLMService.generate_follow_ups
\* A line of the reply to the follow-up prompt: an enumeration marker ("1.",
\* "-", "*" or none) and the text after it; blank lines have neither.
ReplyLine(marker, text) == [marker |-> marker, text |-> text]
ReplyLines ==
    { ReplyLine("", EmptyText), ReplyLine("", <<"q1">>), ReplyLine("1.", <<"q2">>),
      ReplyLine("-", EmptyText) }

\* What the follow-up completion does: it raises, or it replies with lines.
Reply(raises, lines) == [raises |-> raises, lines |-> lines]
Replies == { Reply(TRUE, <<>>) } \cup { Reply(FALSE, l) : l \in SeqsUpTo(ReplyLines, MaxReplyLines) }

\* line.strip(), then re.sub: a leading number-and-dot, dash or star and the
\* white space after it are removed.
StripMarker(line) == line.text

\* "Parse lines and clean up": the questions of lines[i..], after acc.
RECURSIVE ParseQuestions(_, _, _)
ParseQuestions(lines, i, acc) ==
    IF i > Len(lines) THEN acc
    ELSE IF lines[i].marker = "" /\ lines[i].text = EmptyText
    THEN ParseQuestions(lines, i + 1, acc)
    ELSE IF StripMarker(lines[i]) # EmptyText
    THEN ParseQuestions(lines, i + 1, Append(acc, StripMarker(lines[i])))
    ELSE ParseQuestions(lines, i + 1, acc)

\* questions[:n]
Top(questions, n) == SubSeq(questions, 1, IF Len(questions) < n THEN Len(questions) ELSE n)

\* generate_follow_ups that returns every question it parsed.
GenerateFollowUpsUntruncated(found, reply) ==
    IF ~found \/ reply.raises THEN <<>> ELSE ParseQuestions(reply.lines, 1, <<>>)

\* LLMService.generate_follow_ups: the list returned.
generate_follow_ups(found, reply) ==
    IF ~found THEN <<>>
    ELSE IF reply.raises THEN <<>>
    ELSE Top(ParseQuestions(reply.lines, 1, <<>>), MaxFollowUps)

NotGenerated == [ran |-> FALSE, follow_ups |-> <<>>]

\* The generator is resumed after it yielded the done chunk: follow-ups are
\* generated, the assistant message is saved, and it runs to its next yield or
\* its end.
ResumeWithFollowUps ==
    /\ pc = "pull"
    /\ gen.pc = "afterYield"
    /\ ~fuResult.ran
    /\ LET follow_ups == generate_follow_ups(fuFound, fuReply)
           r == _stream_completion(gen, messages, follow_ups # <<>>)
       IN /\ fuResult' = [ran |-> TRUE, follow_ups |-> follow_ups]
          /\ gen' = r.gen
          /\ messages' = r.messages
          /\ chunk' = IF r.out = "yield" THEN r.chunk ELSE chunk
          /\ pc' = IF r.out = "yield" THEN "check" ELSE "after_loop"
    /\ UNCHANGED <<upstream, convExists, providerRegistered, stopped_generations, events,
                   stops, bridge_content>>
    /\ UNCHANGED <<fuFound, fuReply>>
    /\ UNCHANGED <<adapterVars, registryVars, catalogVars, healthVars, searchVars, detectVars,
                   payloadVars, callVars, turnVars>>

\* ------------------------------------------------ sockets/chat_events.py
Event(name, c, source) ==
    [name |-> name, content |-> c.content, done |-> c.done,
     follow_ups |-> c.follow_ups, source |-> source]

\* A start of the turn that leaves the flag alone.
DiscardAtStartSkipped(s, c) == s

\* stopped_generations.discard(conversation_id) at the start of the turn
DiscardAtStart(s, c) == s \ {c}
\* A finally block that leaves the flag alone.
DiscardInFinallySkipped(s, c) == s

\* stopped_generations.discard(conversation_id) in the finally block
DiscardInFinally(s, c) == s \ {c}

RECURSIVE LastAssistant(_, _)
\* The most recent assistant message among msgs[1..i], as an index (0: none).
LastAssistant(msgs, i) ==
    IF i = 0 THEN 0
    ELSE IF msgs[i].role = "assistant" THEN i ELSE LastAssistant(msgs, i - 1)

\* The stream_end event: the last assistant message of the conversation, or
\* the fallback object, or None.
StreamEnd(msgs, content) ==
    LET i == LastAssistant(msgs, Len(msgs)) IN
    IF i > 0
    THEN Event("stream_end", [content |-> msgs[i].content, done |-> TRUE,
                              follow_ups |-> msgs[i].follow_ups], msgs[i].turn)
    ELSE IF content # EmptyText
    THEN Event("stream_end", [content |-> content, done |-> TRUE, follow_ups |-> FALSE],
               "fallback")
    ELSE Event("stream_end", NoChunk, "none")

\* An except branch that closes the stream with stream_end.
OnExceptionStreamEnd == Event("stream_end", NoChunk, "none")

\* What the except branch emits to the room.
OnException == Event("error", NoChunk, "none")

History ==
    { <<>>,
      << Message("user", Hi, "earlier", FALSE), Message("assistant", Hi, "earlier", FALSE) >> }


\* try: stopped_generations.discard(conversation_id)
Start ==
    /\ pc = "idle"
    /\ stopped_generations' = DiscardAtStart(stopped_generations, ConvId)
    /\ pc' = "start"
    /\ UNCHANGED <<upstream, convExists, providerRegistered, events, stops, messages,
                   gen, chunk, bridge_content>>
    /\ UNCHANGED notStreamVars

\* socketio.emit('stream_start', ...)
EmitStreamStart ==
    /\ pc = "start"
    /\ events' = Append(events, Event("stream_start", NoChunk, "none"))
    /\ pc' = "prepare"
    /\ UNCHANGED <<upstream, convExists, providerRegistered, stopped_generations, stops,
                   messages, gen, chunk, bridge_content>>
    /\ UNCHANGED notStreamVars

\* generator = await llm_service.chat_completion(..., stream=True)
Prepare ==
    /\ pc = "prepare"
    /\ IF convExists
       THEN /\ messages' = Append(messages, Message("user", Hi, "this", FALSE))
            /\ gen' = [NoGen EXCEPT !.pc = "start"]
            /\ pc' = "pull"
       ELSE /\ pc' = "except"
            /\ UNCHANGED <<messages, gen>>
    /\ UNCHANGED <<upstream, convExists, providerRegistered, stopped_generations, events,
                   stops, chunk, bridge_content>>
    /\ UNCHANGED notStreamVars

\* `async for chunk in generator`: the next chunk is awaited.
Pull ==
    /\ pc = "pull"
    /\ \E follow_ups \in BOOLEAN :
         LET r == _stream_completion(gen, messages, follow_ups) IN
         /\ gen' = r.gen
         /\ messages' = r.messages
         /\ chunk' = IF r.out = "yield" THEN r.chunk ELSE chunk
         /\ pc' = CASE r.out = "yield" -> "check"
                    [] r.out = "end" -> "after_loop"
                    [] OTHER -> "except"
    /\ UNCHANGED <<upstream, convExists, providerRegistered, stopped_generations, events,
                   stops, bridge_content>>
    /\ UNCHANGED notStreamVars

\* if conversation_id in stopped_generations: break
CheckStopped ==
    /\ pc = "check"
    /\ pc' = IF ConvId \in stopped_generations THEN "after_loop" ELSE "emit"
    /\ UNCHANGED <<upstream, convExists, providerRegistered, stopped_generations, events,
                   stops, messages, gen, chunk, bridge_content>>
    /\ UNCHANGED notStreamVars

\* A loop body that forwards no chunk whose done flag is set.
EmitChunkDroppingDone ==
    /\ pc = "emit"
    /\ bridge_content' = bridge_content \o chunk.content
    /\ events' = IF chunk.done THEN events
                 ELSE Append(events, Event("stream_chunk", chunk, "none"))
    /\ pc' = "pull"
    /\ UNCHANGED <<upstream, convExists, providerRegistered, stopped_generations, stops,
                   messages, gen, chunk>>
    /\ UNCHANGED notStreamVars

\* full_content += chunk['content']; socketio.emit('stream_chunk', ...)
EmitChunk ==
    /\ pc = "emit"
    /\ bridge_content' = bridge_content \o chunk.content
    /\ events' = Append(events, Event("stream_chunk", chunk, "none"))
    /\ pc' = "pull"
    /\ UNCHANGED <<upstream, convExists, providerRegistered, stopped_generations, stops,
                   messages, gen, chunk>>
    /\ UNCHANGED notStreamVars

\* After the loop: get_messages, the fallback, socketio.emit('stream_end', ...)
AfterLoop ==
    /\ pc = "after_loop"
    /\ events' = Append(events, StreamEnd(messages, bridge_content))
    /\ pc' = "finally"
    /\ UNCHANGED <<upstream, convExists, providerRegistered, stopped_generations, stops,
                   messages, gen, chunk, bridge_content>>
    /\ UNCHANGED notStreamVars

\* except Exception: socketio.emit('error', ...)
Except ==
    /\ pc = "except"
    /\ events' = Append(events, OnException)
    /\ pc' = "finally"
    /\ UNCHANGED <<upstream, convExists, providerRegistered, stopped_generations, stops,
                   messages, gen, chunk, bridge_content>>
    /\ UNCHANGED notStreamVars

\* finally: stopped_generations.discard(conversation_id)
Finally ==
    /\ pc = "finally"
    /\ stopped_generations' = DiscardInFinally(stopped_generations, ConvId)
    /\ pc' = "done"
    /\ UNCHANGED <<upstream, convExists, providerRegistered, events, stops, messages,
                   gen, chunk, bridge_content>>
    /\ UNCHANGED notStreamVars

\* handle_stop_generation, on the socket thread: the flag is set and
\* generation_stopped is emitted to the room.
handle_stop_generation(c) ==
    /\ stops < MaxStops
    /\ stops' = stops + 1
    /\ stopped_generations' = stopped_generations \cup {c}
    /\ events' = IF c = ConvId
                 THEN Append(events, Event("generation_stopped", NoChunk, "none"))
                 ELSE events
    /\ UNCHANGED <<upstream, convExists, providerRegistered, pc, messages, gen, chunk,
                   bridge_content>>
    /\ UNCHANGED notStreamVars

StopGeneration == \E c \in Convs : handle_stop_generation(c)

\* ------------------------------------------------ turns of one conversation
\* Each send_message starts process_chat_message_async as a task of its own on
\* the shared event loop; nothing keeps a conversation to one turn at a time.
TurnIds == {1, 2}
Turn(p, left, forwarded, aborted) ==
    [pc |-> p, left |-> left, forwarded |-> forwarded, aborted |-> aborted]
NoTurns == [t \in TurnIds |-> Turn("idle", 0, 0, FALSE)]

\* The task runs up to its first await: the flag is discarded, stream_start
\* is emitted and the generator of n chunks is obtained.
TurnStart(t) ==
    /\ turns[t].pc = "idle"
    /\ stopped_generations' = DiscardAtStart(stopped_generations, ConvId)
    /\ \E n \in 1..MaxLines : turns' = [turns EXCEPT ![t] = Turn("streaming", n, 0, FALSE)]
    /\ UNCHANGED <<upstream, convExists, providerRegistered, pc, events, stops, messages,
                   gen, chunk, bridge_content>>
    /\ UNCHANGED notTurnVars

\* A chunk arrives: the loop checks the flag, and breaks or forwards the chunk.
TurnChunk(t) ==
    /\ turns[t].pc = "streaming"
    /\ turns[t].left > 0
    /\ turns' = [turns EXCEPT ![t] =
                   IF ConvId \in stopped_generations
                   THEN Turn("ending", @.left - 1, @.forwarded, TRUE)
                   ELSE Turn("streaming", @.left - 1, @.forwarded + 1, FALSE)]
    /\ UNCHANGED streamVars
    /\ UNCHANGED notTurnVars

\* The generator is exhausted: the loop ends.
TurnExhausted(t) ==
    /\ turns[t].pc = "streaming"
    /\ turns[t].left = 0
    /\ turns' = [turns EXCEPT ![t].pc = "ending"]
    /\ UNCHANGED streamVars
    /\ UNCHANGED notTurnVars

\* stream_end was emitted: the finally block discards the flag.
TurnFinally(t) ==
    /\ turns[t].pc = "ending"
    /\ stopped_generations' = DiscardInFinally(stopped_generations, ConvId)
    /\ turns' = [turns EXCEPT ![t].pc = "done"]
    /\ UNCHANGED <<upstream, convExists, providerRegistered, pc, events, stops, messages,
                   gen, chunk, bridge_content>>
    /\ UNCHANGED notTurnVars

\* stop_generation for the conversation, on the socket thread.
TurnStop == handle_stop_generation(ConvId)


\* ------------------------------------------------ chat_completion(stream=False)
\* f"Error calling OpenAI agent: {e}"
ErrCallOpenAI == <<"Error calling OpenAI agent">>
\* f"Error calling LangServe agent: {e}"
ErrCallLangServe == <<"Error calling LangServe agent">>
\* f"Error: {e}" of the HuggingFace and OpenAI adapters
ErrAdapter == <<"Error">>
\* A response text of two parts.
HiYo == <<"Hi", "Yo">>

\* The upstream's answer to the one request of a non-streaming call: "ok" with
\* the response text, "fail" (the request or raise_for_status raises), or
\* "nokey" (HuggingFace adapter without an api_key).
Answer(kind, text) == [kind |-> kind, text |-> text]
Answers == { Answer("fail", EmptyText) } \cup { Answer("ok", t) : t \in {EmptyText, Hi, HiYo} }
AdapterKinds == Protocols \cup {"huggingface", "openai_sdk"}
AnswersOf(kind) ==
    IF kind = "huggingface" THEN Answers \cup { Answer("nokey", EmptyText) } ELSE Answers

\* OllamaProvider.chat_completion(stream=False): _non_stream_chat re-raises.
_non_stream_chat(a) ==
    IF a.kind = "ok" THEN Output(<<ChatCompletionChunk(a.text, TRUE)>>, FALSE)
    ELSE Output(<<>>, TRUE)

\* AgentProvider._call_openai, yielded by chat_completion
_call_openai(a) ==
    IF a.kind = "ok" THEN Output(<<ChatCompletionChunk(a.text, FALSE)>>, FALSE)
    ELSE Output(<<ChatCompletionChunk(ErrCallOpenAI, FALSE)>>, FALSE)

\* AgentProvider._call_langserve, yielded by chat_completion
_call_langserve(a) ==
    IF a.kind = "ok" THEN Output(<<ChatCompletionChunk(a.text, FALSE)>>, FALSE)
    ELSE Output(<<ChatCompletionChunk(ErrCallLangServe, FALSE)>>, FALSE)

\* text[i..] in pieces of chunk_size, the last one with done set.
RECURSIVE Pieces(_, _)
Pieces(text, i) ==
    IF i > Len(text) THEN <<>>
    ELSE <<ChatCompletionChunk(<<text[i]>>, i = Len(text))>> \o Pieces(text, i + 1)

\* A HuggingFace adapter that yields the answer in pieces whatever stream is.
HuggingFaceAlwaysInPieces(a) ==
    CASE a.kind = "nokey" -> Output(<<>>, TRUE)
      [] a.kind = "ok" -> Output(Pieces(a.text, 1), FALSE)
      [] OTHER -> Output(<<ChatCompletionChunk(ErrAdapter, TRUE)>>, FALSE)

\* HuggingFaceProvider.chat_completion(stream=False)
HuggingFaceNonStream(a) ==
    CASE a.kind = "nokey" -> Output(<<>>, TRUE)
      [] a.kind = "ok" -> Output(<<ChatCompletionChunk(a.text, TRUE)>>, FALSE)
      [] OTHER -> Output(<<ChatCompletionChunk(ErrAdapter, TRUE)>>, FALSE)

\* OpenAIProvider.chat_completion(stream=False)
OpenAINonStream(a) ==
    IF a.kind = "ok" THEN Output(<<ChatCompletionChunk(a.text, TRUE)>>, FALSE)
    ELSE Output(<<ChatCompletionChunk(ErrAdapter, TRUE)>>, FALSE)

\* provider.chat_completion(model, messages, stream=False), consumed to its end.
AdapterCall(kind, a) ==
    CASE kind = "ollama" -> _non_stream_chat(a)
      [] kind = "openai" -> _call_openai(a)
      [] kind = "langserve" -> _call_langserve(a)
      [] kind = "huggingface" -> HuggingFaceNonStream(a)
      [] kind = "openai_sdk" -> OpenAINonStream(a)
      [] OTHER -> Output(<<ChatCompletionChunk(ErrNotConfigured, FALSE)>>, FALSE)

\* ------------------------------------------------ chat_completion(stream=True), other adapters
\* A line of the HuggingFace streaming response: "text" carries the
\* generated_text so far, "nogen" is JSON without generated_text, "badjson" is
\* not JSON, "neterr" is the connection failing while the body is read.
HFLine(kind, text) == [kind |-> kind, text |-> text]
HFLines == { HFLine("text", Hi), HFLine("text", HiYo), HFLine("nogen", EmptyText),
             HFLine("badjson", EmptyText), HFLine("neterr", EmptyText) }

\* One HuggingFace exchange: whether the streaming request is answered with
\* status 200, the lines of its body, and the answer to the fallback request.
HFExchange(ok, lines, answer) == [status200 |-> ok, lines |-> lines, answer |-> answer]
HFExchanges ==
    { HFExchange(ok, lines, a) :
        ok \in BOOLEAN, lines \in SeqsUpTo(HFLines, MaxLines), a \in AnswersOf("huggingface") }

\* text[len(buffer):]
After(text, buffer) ==
    IF Len(buffer) >= Len(text) THEN EmptyText ELSE SubSeq(text, Len(buffer) + 1, Len(text))

\* The streaming attempt over lines[i..]: the chunks yielded, and whether an
\* exception sent the call on to the fallback request.
RECURSIVE HuggingFaceLines(_, _, _, _)
HuggingFaceLines(lines, i, buffer, acc) ==
    IF i > Len(lines)
    THEN [chunks |-> Append(acc, ChatCompletionChunk(EmptyText, TRUE)), fallback |-> FALSE]
    ELSE CASE lines[i].kind = "neterr" -> [chunks |-> acc, fallback |-> TRUE]
           [] lines[i].kind = "text" ->
                HuggingFaceLines(lines, i + 1, lines[i].text,
                    IF After(lines[i].text, buffer) # EmptyText
                    THEN Append(acc, ChatCompletionChunk(After(lines[i].text, buffer), FALSE))
                    ELSE acc)
           [] OTHER -> HuggingFaceLines(lines, i + 1, buffer, acc)

\* The fallback request and the simulated streaming of its answer.
HuggingFaceFallback(a) ==
    IF a.kind = "ok" THEN Pieces(a.text, 1) ELSE <<ChatCompletionChunk(ErrAdapter, TRUE)>>

\* HuggingFaceProvider.chat_completion(stream=True)
HuggingFaceStream(x) ==
    LET attempt == IF x.status200 THEN HuggingFaceLines(x.lines, 1, EmptyText, <<>>)
                   ELSE [chunks |-> <<>>, fallback |-> TRUE]
    IN CASE x.answer.kind = "nokey" -> Output(<<>>, TRUE)
         [] attempt.fallback -> Output(attempt.chunks \o HuggingFaceFallback(x.answer), FALSE)
         [] OTHER -> Output(attempt.chunks, FALSE)

\* A chunk of the OpenAI SDK stream: "delta" has content, "empty" has no
\* choices or no content, "neterr" is the SDK raising.
SDKChunks == { [kind |-> "delta", text |-> Hi], [kind |-> "empty", text |-> EmptyText],
               [kind |-> "neterr", text |-> EmptyText] }

\* OpenAIProvider.chat_completion(stream=True) over response[i..]
RECURSIVE OpenAIStream(_, _, _)
OpenAIStream(response, i, acc) ==
    IF i > Len(response) THEN Append(acc, ChatCompletionChunk(EmptyText, TRUE))
    ELSE CASE response[i].kind = "neterr" -> Append(acc, ChatCompletionChunk(ErrAdapter, TRUE))
           [] response[i].kind = "delta" ->
                OpenAIStream(response, i + 1, Append(acc, ChatCompletionChunk(response[i].text, FALSE)))
           [] OTHER -> OpenAIStream(response, i + 1, acc)

\* What the upstream of each adapter kind can send to a streaming call.
StreamInputs(kind) ==
    CASE kind = "huggingface" -> { <<x>> : x \in HFExchanges }
      [] kind = "openai_sdk" -> SeqsUpTo(SDKChunks, MaxLines)
      [] OTHER -> BodiesOf(kind)

\* provider.chat_completion(model, messages, stream=True) of any adapter.
StreamOf(kind, b) ==
    CASE kind = "huggingface" -> HuggingFaceStream(b[1])
      [] kind = "openai_sdk" -> Output(OpenAIStream(b, 1, <<>>), FALSE)
      [] OTHER -> AdapterStream(kind, b)

\* The streaming call of the adapter, consumed to its end.
RunStream ==
    /\ ~emitted.ran
    /\ emitted' = StreamOf(protocol, body)
    /\ UNCHANGED <<protocol, body>>
    /\ UNCHANGED notAdapterVars

\* LLMService._non_stream_completion: the provider lookup, `result = chunk`
\* for every chunk, the follow-ups, save_message and the extraction task.
NonStreamTurn ==
    /\ nonstream.pc = "idle"
    /\ IF ~providerRegistered
       THEN /\ nonstream' = [pc |-> "raised", log |-> <<>>]
            /\ UNCHANGED <<emitted, messages>>
       ELSE LET out == AdapterCall(protocol, body[1]) IN
            /\ emitted' = out
            /\ IF out.raises \/ out.chunks = <<>>
               THEN /\ nonstream' = [pc |-> "raised", log |-> <<>>]
                    /\ UNCHANGED messages
               ELSE \E follow_ups \in BOOLEAN :
                      /\ messages' = SaveAssistant(messages,
                                                   out.chunks[Len(out.chunks)].content,
                                                   follow_ups)
                      /\ nonstream' = [pc |-> "done", log |-> DoneSteps]
    /\ UNCHANGED <<protocol, body>>
    /\ UNCHANGED <<upstream, convExists, providerRegistered, pc, stopped_generations,
                   events, stops, gen, chunk, bridge_content>>
    /\ UNCHANGED <<rest, regen, listing, listed>>
    /\ UNCHANGED <<registryVars, catalogVars, healthVars, searchVars, detectVars,
                   payloadVars, followUpVars, turnVars>>

\* ------------------------------------------------ LLMService.chat_completion
\* Messages stored in a conversation before the call.
MaxStored == 12
\* get_messages(conversation_id, user_id, limit=10) of the regenerate branch
RegenerateWindow == 10
\* get_messages(conversation_id, user_id, limit=50) for the history
HistoryLimit == 50

\* A stored message with its id.
Stored(id, role) ==
    [id |-> id, role |-> role, content |-> Hi, turn |-> "earlier", follow_ups |-> FALSE]
\* The conversations of at most MaxStored messages: the first is a user
\* message, a user message is followed by at most two assistant messages (one
\* per done chunk of its turn), ids are the positions.
Conversations ==
    UNION { { [i \in 1..n |-> Stored(i, roles[i])] :
                roles \in { r \in [1..n -> {"user", "assistant"}] :
                              /\ n = 0 \/ r[1] = "user"
                              /\ \A i \in 1..(n - 2) :
                                    "user" \in {r[i], r[i + 1], r[i + 2]} } }
            : n \in 0..MaxStored }

\* LLMService.get_messages: the limit most recent messages, oldest first.
get_messages(msgs, limit) ==
    SubSeq(msgs, IF Len(msgs) > limit THEN Len(msgs) - limit + 1 ELSE 1, Len(msgs))

\* `for msg in reversed(messages)` of the regenerate branch, from window[i]
\* down: failing holds the ids whose delete raises, deleted the ids deleted,
\* current is current_msg_id (0: None).
RECURSIVE RegenerateLoop(_, _, _, _, _)
RegenerateLoop(window, i, failing, deleted, current) ==
    IF i = 0 THEN [deleted |-> deleted, current |-> current]
    ELSE IF window[i].role = "assistant" /\ deleted = {}
    THEN IF window[i].id \in failing
         THEN RegenerateLoop(window, i - 1, failing, deleted, current)
         ELSE RegenerateLoop(window, i - 1, failing, deleted \cup {window[i].id}, current)
    ELSE IF window[i].role = "user" /\ current = 0
    THEN RegenerateLoop(window, i - 1, failing, deleted, window[i].id)
    ELSE RegenerateLoop(window, i - 1, failing, deleted, current)

\* The history loop: one prompt message per stored message, the one with
\* current_msg_id carrying user_message_with_context.
Prompt(history, current) ==
    [i \in 1..Len(history) |->
        [id |-> history[i].id, role |-> history[i].role, enriched |-> history[i].id = current]]

\* What the call left: the index, and the call's record.
TurnPrepared(msgs, before, regenerate, deleted, current) ==
    [messages |-> msgs,
     regen |-> [pc |-> "prepared", regenerate |-> regenerate, before |-> before,
                deleted |-> deleted, current |-> current,
                prompt |-> Prompt(get_messages(msgs, HistoryLimit), current)]]

\* chat_completion up to the call of the completion: an ordinary turn saves the
\* user message; a regenerate turn deletes and picks current_msg_id.
PrepareTurn(msgs, regenerate, failing) ==
    IF ~regenerate
    THEN TurnPrepared(Append(msgs, Stored(Len(msgs) + 1, "user")), msgs, regenerate, {},
                      Len(msgs) + 1)
    ELSE LET window == get_messages(msgs, RegenerateWindow)
             r == RegenerateLoop(window, Len(window), failing, {}, 0)
         IN TurnPrepared(SelectSeq(msgs, LAMBDA x : x.id \notin r.deleted), msgs, regenerate,
                     r.deleted, r.current)

\* llm_service.chat_completion(conversation_id, user_id, user_message,
\* regenerate=...), up to its return statement.
ChatCompletionCall ==
    /\ regen.pc = "idle"
    /\ \E regenerate \in BOOLEAN :
       \E failing \in {{}} \cup { {messages[i].id} : i \in 1..Len(messages) } :
         LET r == PrepareTurn(messages, regenerate, failing) IN
         /\ messages' = r.messages
         /\ regen' = r.regen
    /\ UNCHANGED <<upstream, convExists, providerRegistered, pc, stopped_generations,
                   events, stops, gen, chunk, bridge_content>>
    /\ UNCHANGED <<rest, nonstream, listing, listed>>
    /\ UNCHANGED notRestVars

\* provider.chat_completion(model, messages=chat_messages, ...) is called with
\* the prompt built.
Dispatch ==
    /\ regen.pc = "prepared"
    /\ regen' = [regen EXCEPT !.pc = "dispatched"]
    /\ UNCHANGED streamVars
    /\ UNCHANGED <<rest, nonstream, listing, listed>>
    /\ UNCHANGED notRestVars

\* ------------------------------------------------ routes/v1/chat.py
(***************************************************************************)
(* generate(), the body of the SSE response of chat_completions with       *)
(* stream=true: pc is its position, chunk its loop variable, sent the      *)
(* frames it yielded, aborted whether an exception left it.                *)
(***************************************************************************)
NoRest == [pc |-> "idle", chunk |-> NoChunk, sent |-> <<>>, aborted |-> FALSE]
NoRegen == [pc |-> "idle"]
NoNonStream == [pc |-> "idle"]
NoListing == [set |-> FALSE]
NotListed == [ran |-> FALSE]

\* gen_obj = gen_loop.run_until_complete(gen_coro): chat_completion saves the
\* user message and returns the generator, or raises for an unknown
\* conversation, which leaves generate() through its finally block.
RestStart ==
    /\ rest.pc = "idle"
    /\ IF convExists
       THEN /\ messages' = Append(messages, Message("user", Hi, "this", FALSE))
            /\ gen' = [NoGen EXCEPT !.pc = "start"]
            /\ rest' = [rest EXCEPT !.pc = "pull"]
       ELSE /\ rest' = [rest EXCEPT !.pc = "finally", !.aborted = TRUE]
            /\ UNCHANGED <<messages, gen>>
    /\ UNCHANGED <<upstream, convExists, providerRegistered, pc, stopped_generations,
                   events, stops, chunk, bridge_content>>
    /\ UNCHANGED <<regen, nonstream, listing, listed>>
    /\ UNCHANGED notRestVars

\* if chunk.get("done"): break
AfterFrame(c) == IF c.done THEN "finally" ELSE "pull"

\* chunk = gen_loop.run_until_complete(gen_obj.__anext__()), with the except
\* branches for StopAsyncIteration (break) and Exception (an error frame, break).
RestPull ==
    /\ rest.pc = "pull"
    /\ \E follow_ups \in BOOLEAN :
         LET r == _stream_completion(gen, messages, follow_ups) IN
         /\ gen' = r.gen
         /\ messages' = r.messages
         /\ rest' = CASE r.out = "yield" -> [rest EXCEPT !.pc = "forward", !.chunk = r.chunk]
                      [] r.out = "end" -> [rest EXCEPT !.pc = "finally"]
                      [] OTHER -> [rest EXCEPT !.pc = "finally",
                                               !.sent = Append(@, Event("error", NoChunk, "none"))]
    /\ UNCHANGED <<upstream, convExists, providerRegistered, pc, stopped_generations,
                   events, stops, chunk, bridge_content>>
    /\ UNCHANGED <<regen, nonstream, listing, listed>>
    /\ UNCHANGED notRestVars

\* yield f"data: {json.dumps(chunk)}", then the test of its done flag.
RestForward ==
    /\ rest.pc = "forward"
    /\ rest' = [rest EXCEPT !.pc = AfterFrame(rest.chunk),
                            !.sent = Append(@, Event("data", rest.chunk, "none"))]
    /\ UNCHANGED streamVars
    /\ UNCHANGED <<regen, nonstream, listing, listed>>
    /\ UNCHANGED notRestVars

\* finally: gen_loop.close(). The generator object is dropped where it is
\* suspended; closing it raises GeneratorExit at its yield, which runs none of
\* the statements after it.
RestFinally ==
    /\ rest.pc = "finally"
    /\ rest' = [rest EXCEPT !.pc = "done"]
    /\ UNCHANGED streamVars
    /\ UNCHANGED <<regen, nonstream, listing, listed>>
    /\ UNCHANGED notRestVars

\* ------------------------------------------------ ProviderFactory
EmptyMap == [k \in {} |-> 0]
Put(m, k, v) == [x \in (DOMAIN m) \cup {k} |-> IF x = k THEN v ELSE m[x]]
Get(m, k, default) == IF k \in DOMAIN m THEN m[k] ELSE default

\* provider_classes in initialize_providers
ProviderTypes == {"ollama", "huggingface", "openai", "agent"}

\* The provider ids in use: those of the settings and of the defaults.
ProviderIds == {"ollama", "huggingface", "openai", "agent", "local"}

\* A provider_data entry of the settings' "providers" list; id "" is a missing id.
ProviderData(id, type, enabled) == [id |-> id, type |-> type, enabled |-> enabled]
SettingsEntries ==
    { ProviderData("ollama", "ollama", TRUE),
      ProviderData("agent", "agent", TRUE),
      ProviderData("agent", "agent", FALSE),
      ProviderData("", "openai", TRUE),
      ProviderData("ollama", "bogus", TRUE) }
\* Longest "providers" list of the settings.
MaxSettings == 2
SettingsLists == SeqsUpTo(SettingsEntries, MaxSettings)
\* The settings the process was started with: a provider under an id of its own.
StartupLists == { <<ProviderData("local", "ollama", TRUE)>> }

\* A constructed adapter: its class and the initialize_providers call that built it.
Instance(type, n) == [type |-> type, built |-> n]
None == Instance("None", -1)

\* The loop body of initialize_providers: whether provider_data is registered.
IsRegistered(d) == d.enabled /\ d.type \in ProviderTypes /\ d.id # ""

\* ProviderFactory.register_provider
register_provider(m, name, type, n) == Put(m, name, Instance(type, n))

\* The provider map after a whole initialize_providers call over a settings list.
RECURSIVE RegisterAll(_, _, _, _)
RegisterAll(m, list, i, n) ==
    IF i > Len(list) THEN m
    ELSE IF IsRegistered(list[i])
    THEN RegisterAll(register_provider(m, list[i].id, list[i].type, n), list, i + 1, n)
    ELSE RegisterAll(m, list, i + 1, n)

\* The except branch of initialize_providers, in registration order.
Defaults == <<"ollama", "huggingface", "openai", "agent">>

\* ProviderFactory.get_provider
get_provider(name) == Get(providers, name, None)
\* ProviderFactory.list_providers
list_providers == DOMAIN providers

\* The initialize_providers call: path is "settings" or, once get_settings raised,
\* "defaults"; old is the provider map the call started from.
NoInit == [pc |-> "idle", path |-> "settings", settings |-> <<>>, i |-> 0, old |-> EmptyMap]
NotObserved == [seen |-> FALSE, during |-> FALSE, map |-> EmptyMap]


\* initialize_providers is entered: settings_service.get_settings()
ReinitBegin ==
    /\ init.pc = "idle"
    /\ reinits < MaxReinits
    /\ reinits' = reinits + 1
    /\ \/ \E list \in SettingsLists :
            init' = [pc |-> "clear_providers", path |-> "settings", settings |-> list,
                     i |-> 1, old |-> providers]
       \* get_settings raises: the except branch registers the defaults
       \/ init' = [pc |-> "defaults", path |-> "defaults", settings |-> <<>>,
                    i |-> 1, old |-> providers]
    /\ observed' = NotObserved
    /\ UNCHANGED <<providers, configs>>
    /\ UNCHANGED catalogVars
    /\ UNCHANGED notFactoryVars

\* provider_factory._providers.clear()
ClearProviders ==
    /\ init.pc = "clear_providers"
    /\ providers' = EmptyMap
    /\ init' = [init EXCEPT !.pc = "clear_configs"]
    /\ UNCHANGED <<configs, reinits, observed>>
    /\ UNCHANGED catalogVars
    /\ UNCHANGED notFactoryVars

\* provider_factory._configs.clear()
ClearConfigs ==
    /\ init.pc = "clear_configs"
    /\ configs' = {}
    /\ init' = [init EXCEPT !.pc = "register"]
    /\ UNCHANGED <<providers, reinits, observed>>
    /\ UNCHANGED catalogVars
    /\ UNCHANGED notFactoryVars

\* One iteration of `for provider_data in providers_list`.
RegisterNext ==
    /\ init.pc = "register"
    /\ init.i <= Len(init.settings)
    /\ LET d == init.settings[init.i] IN
       IF IsRegistered(d)
       THEN /\ configs' = configs \cup {d.id}
            /\ providers' = register_provider(providers, d.id, d.type, reinits)
       ELSE UNCHANGED <<providers, configs>>
    /\ init' = [init EXCEPT !.i = @ + 1]
    /\ UNCHANGED <<reinits, observed>>
    /\ UNCHANGED catalogVars
    /\ UNCHANGED notFactoryVars

\* register_provider raises in the loop (provider_class(config) with a config
\* that is not a dict): the config is stored, no instance is, and the except
\* branch takes over.
RegisterRaises ==
    /\ init.pc = "register"
    /\ init.i <= Len(init.settings)
    /\ IsRegistered(init.settings[init.i])
    /\ configs' = configs \cup {init.settings[init.i].id}
    /\ init' = [init EXCEPT !.pc = "defaults", !.path = "defaults", !.i = 1]
    /\ UNCHANGED <<providers, reinits, observed>>
    /\ UNCHANGED catalogVars
    /\ UNCHANGED notFactoryVars

\* One register_provider call of the except branch.
RegisterDefault ==
    /\ init.pc = "defaults"
    /\ configs' = configs \cup {Defaults[init.i]}
    /\ providers' = register_provider(providers, Defaults[init.i], Defaults[init.i], reinits)
    /\ init' = IF init.i = Len(Defaults) THEN [init EXCEPT !.pc = "idle"]
               ELSE [init EXCEPT !.i = @ + 1]
    /\ UNCHANGED <<reinits, observed>>
    /\ UNCHANGED catalogVars
    /\ UNCHANGED notFactoryVars

\* ModelRegistry.clear_cache(None)
clear_cache == /\ model_cache' = EmptyMap
               /\ last_refresh' = EmptyMap

\* The loop is over: model_registry.clear_cache(), and the call returns.
ReinitEnd ==
    /\ init.pc = "register"
    /\ init.i > Len(init.settings)
    /\ init' = [init EXCEPT !.pc = "idle"]
    /\ clear_cache
    /\ UNCHANGED <<providers, configs, reinits, observed>>
    /\ UNCHANGED catalogRest
    /\ UNCHANGED notFactoryVars

\* A concurrent request thread reads the registry (get_provider, list_providers).
ReadRegistry ==
    /\ observed' = [seen |-> TRUE, during |-> init.pc # "idle", map |-> providers]
    /\ observed' # observed
    /\ UNCHANGED <<providers, configs, init, reinits>>
    /\ UNCHANGED catalogVars
    /\ UNCHANGED notFactoryVars


\* ------------------------------------------------ ModelRegistry
\* What one provider.list_models call does: a list of models, an empty list,
\* or an exception.
ListOutcomes == {"models", "empty", "raise"}

\* The list a provider returns: tagged with the provider, the call that made it
\* and the instance whose list_models was submitted.
Models(name, n) == << [provider |-> name, fetch |-> n, built |-> lam.bound[name].built] >>

\* self._last_refresh.get(provider_name, 0)
LastRefresh(name) == Get(last_refresh, name, 0)

\* ServedFromCache with the TTL itself still counted as fresh.
ServedFromCacheInclusive(name, force_refresh) ==
    /\ ~force_refresh
    /\ name \in DOMAIN model_cache
    /\ now - LastRefresh(name) <= CacheTTL

\* list_all_models, "Check cache first": the provider is served from the cache.
ServedFromCache(name, force_refresh) ==
    /\ ~force_refresh
    /\ name \in DOMAIN model_cache
    /\ now - LastRefresh(name) < CacheTTL

\* The state of the catalog a call started from.
Snapshot == [cache |-> model_cache, last |-> last_refresh, at |-> now,
             names |-> list_providers]
NoCall == [pc |-> "idle", force |-> FALSE, pending |-> {}, all_models |-> EmptyMap,
           called |-> {}, failed |-> {}, bound |-> EmptyMap, snap |-> [cache |-> EmptyMap, last |-> EmptyMap,
                                                   at |-> 0, names |-> {}]]


\* The clock advances: by a second, or by just under the TTL.
Tick ==
    /\ ticks < MaxTicks
    /\ ticks' = ticks + 1
    /\ \E d \in {1, CacheTTL - 1} : now' = now + d
    /\ UNCHANGED <<model_cache, last_refresh, fetchCalls, lam, calls>>
    /\ UNCHANGED registryVars
    /\ UNCHANGED notFactoryVars

\* The body of list_all_models(force_refresh) up to the submission of the fetches.
ListAllModels(force_refresh) ==
    LET cached == { name \in list_providers : ServedFromCache(name, force_refresh) }
        providers_to_fetch == list_providers \ cached
        submitted == { name \in providers_to_fetch : get_provider(name) # None }
    IN
    /\ lam.pc # "fetching"
    /\ calls < MaxCalls
    /\ calls' = calls + 1
    /\ fetchCalls' = [name \in DOMAIN fetchCalls |->
                        IF name \in submitted THEN fetchCalls[name] + 1 ELSE fetchCalls[name]]
    /\ lam' = [pc |-> IF providers_to_fetch = {} THEN "returned" ELSE "fetching",
               force |-> force_refresh,
               pending |-> submitted,
               all_models |-> [name \in cached |-> model_cache[name]],
               called |-> submitted,
               failed |-> {},
               bound |-> [name \in submitted |-> get_provider(name)],
               snap |-> Snapshot]
    /\ UNCHANGED <<model_cache, last_refresh, now, ticks>>

\* list_all_models(force_refresh), called by a request handler.
list_all_models(force_refresh) ==
    /\ ListAllModels(force_refresh)
    /\ UNCHANGED registryVars
    /\ UNCHANGED notFactoryVars

LamBegin == \E force_refresh \in BOOLEAN : list_all_models(force_refresh)

\* The list_all_models call that runs beside initialize_providers: its fetches
\* are submitted before initialize_providers is entered.
ConcurrentListing ==
    /\ lam.pc = "idle"
    /\ reinits = 0
    /\ \E force_refresh \in BOOLEAN : list_all_models(force_refresh)

\* as_completed: the try branch, future.result() returned models.
OnFetched(name, models) ==
    /\ model_cache' = Put(model_cache, name, models)
    /\ last_refresh' = Put(last_refresh, name, now)
    /\ lam' = [lam EXCEPT !.pending = @ \ {name}, !.all_models = Put(@, name, models)]

\* An except branch that also drops what the catalog had cached.
OnFetchErrorInvalidating(name) ==
    /\ lam' = [lam EXCEPT !.pending = @ \ {name}, !.all_models = Put(@, name, <<>>),
                          !.failed = @ \cup {name}]
    /\ model_cache' = EmptyMap
    /\ last_refresh' = EmptyMap

\* as_completed: the except branch, future.result() raised.
OnFetchError(name) ==
    /\ lam' = [lam EXCEPT !.pending = @ \ {name}, !.all_models = Put(@, name, <<>>),
                          !.failed = @ \cup {name}]
    /\ UNCHANGED <<model_cache, last_refresh>>

\* One iteration of `for future in concurrent.futures.as_completed(...)`.
LamComplete ==
    /\ lam.pc = "fetching"
    /\ \E name \in lam.pending, outcome \in ListOutcomes :
         CASE outcome = "models" -> OnFetched(name, Models(name, fetchCalls[name]))
           [] outcome = "empty" -> OnFetched(name, <<>>)
           [] OTHER -> OnFetchError(name)
    /\ UNCHANGED <<now, ticks, fetchCalls, calls>>
    /\ UNCHANGED registryVars
    /\ UNCHANGED notFactoryVars

\* return all_models
LamReturn ==
    /\ lam.pc = "fetching"
    /\ lam.pending = {}
    /\ lam' = [lam EXCEPT !.pc = "returned"]
    /\ UNCHANGED <<model_cache, last_refresh, now, ticks, fetchCalls, calls>>
    /\ UNCHANGED registryVars
    /\ UNCHANGED notFactoryVars

\* ------------------------------------------------ ModelRegistry.search_models
\* A search query: the text of a provider's model ids, or text no model holds.
Queries == {"ollama", "nothing"}

\* query_lower in model.name.lower() or in model.id.lower() or in the description:
\* the models of a provider are named after it.
Matches(model, query) == model.provider = query

\* The results list: {"provider": provider_name, "model": model.to_dict()}
SearchResults(all_models, query) ==
    UNION { { [provider |-> name, model |-> all_models[name][i]] :
                i \in { j \in 1..Len(all_models[name]) : Matches(all_models[name][j], query) } } :
            name \in DOMAIN all_models }

NoSearch == [pc |-> "idle", query |-> "", results |-> {}]

\* search_models(query): all_models = self.list_all_models()
search_models ==
    /\ search.pc # "listing"
    /\ ListAllModels(FALSE)
    /\ \E query \in Queries : search' = [pc |-> "listing", query |-> query, results |-> {}]
    /\ UNCHANGED registryVars
    /\ UNCHANGED notSearchVars

\* search_models: list_all_models returned; the matching models are collected.
SearchReturn ==
    /\ search.pc = "listing"
    /\ lam.pc = "returned"
    /\ search' = [search EXCEPT !.pc = "returned",
                                !.results = SearchResults(lam.all_models, search.query)]
    /\ UNCHANGED catalogVars
    /\ UNCHANGED registryVars
    /\ UNCHANGED notSearchVars

\* ------------------------------------------------ AgentProvider: protocol detection
\* The id of the fallback model.
ExternalAgent == "external-agent"
\* The model ids a remote service can expose, and the ids callers use.
RemoteIds == {"m1"}
ModelIds == RemoteIds \cup {ExternalAgent}

\* An HTTP exchange that gave no usable answer: a status other than 200, or an
\* exception of the client.
HttpFailed == [ok |-> FALSE, ids |-> {}]
\* A 200 answer, by the model ids it holds.
HttpListing(ids) == [ok |-> TRUE, ids |-> ids]
\* GET {base}/v1/models: the ids of data[*].id.
V1ModelsResponses == {HttpFailed} \cup { HttpListing(ids) : ids \in SUBSET RemoteIds }
\* GET {base}/openapi.json: the ids of the paths that end with /invoke; the
\* path "/invoke" of an agent mounted at the root gives the empty id, which is dropped.
OpenApiResponses == {HttpFailed} \cup { HttpListing(ids) : ids \in SUBSET RemoteIds }

\* self._agent_types[id] = type, for every id of ids
MarkAll(types, ids, type) ==
    [m \in (DOMAIN types) \cup ids |-> IF m \in ids THEN type ELSE types[m]]

\* AgentProvider.list_models: the detection cache it leaves behind.
list_models(types, v1, openapi) ==
    IF v1.ok /\ v1.ids # {} THEN MarkAll(types, v1.ids, "openai")
    ELSE IF openapi.ok /\ openapi.ids # {} THEN MarkAll(types, openapi.ids, "langserve")
    ELSE Put(types, ExternalAgent, "unknown")

\* A cache test that takes "unknown" for a missing entry.
IsCachedAndClassified(types, model) == model \in DOMAIN types /\ types[model] # "unknown"

\* _get_agent_type: `if model in self._agent_types`
IsCached(types, model) == model \in DOMAIN types

\* AgentProvider._get_agent_type(model): the type returned, the cache left behind,
\* and whether the endpoints were probed. v1 is the answer to GET /v1/models,
\* options whether OPTIONS on the invoke URL gave 200, 204 or 405.
_get_agent_type(types, model, v1, options) ==
    IF IsCached(types, model)
    THEN [type |-> types[model], types |-> types, probed |-> FALSE]
    ELSE IF v1.ok /\ model \in v1.ids
    THEN [type |-> "openai", types |-> Put(types, model, "openai"), probed |-> TRUE]
    ELSE IF options
    THEN [type |-> "langserve", types |-> Put(types, model, "langserve"), probed |-> TRUE]
    ELSE [type |-> "unknown", types |-> Put(types, model, "unknown"), probed |-> TRUE]

\* A call on the instance: before is the cached type of the model when the call
\* began ("none": no entry), protocol the protocol chat_completion went on with.
AgentCall(op, model, before, probed, proto) ==
    [op |-> op, model |-> model, before |-> before, probed |-> probed, protocol |-> proto]
NoAgentCall == AgentCall("none", "", "none", FALSE, "none")
CachedType(model) == Get(agent_types, model, "none")

\* AgentProvider.list_models()
AgentListModels ==
    /\ ops < MaxOps
    /\ ops' = ops + 1
    /\ \E v1 \in V1ModelsResponses, openapi \in OpenApiResponses, clientFails \in BOOLEAN :
         agent_types' = IF ~base_url \/ clientFails THEN agent_types
                        ELSE list_models(agent_types, v1, openapi)
    /\ lastCall' = AgentCall("list_models", "", "none", FALSE, "none")
    /\ UNCHANGED <<base_url, probes, chats>>
    /\ UNCHANGED notDetectVars

\* AgentProvider.get_model_info(model_id): models = self.list_models()
AgentGetModelInfo ==
    /\ ops < MaxOps
    /\ ops' = ops + 1
    /\ \E model \in ModelIds :
         /\ \E v1 \in V1ModelsResponses, openapi \in OpenApiResponses, clientFails \in BOOLEAN :
              agent_types' = IF ~base_url \/ clientFails THEN agent_types
                             ELSE list_models(agent_types, v1, openapi)
         /\ lastCall' = AgentCall("get_model_info", model, CachedType(model), FALSE, "none")
    /\ UNCHANGED <<base_url, probes, chats>>
    /\ UNCHANGED notDetectVars

\* AgentProvider.chat_completion(model, ...): up to the choice of the protocol.
AgentChatCompletion ==
    /\ ops < MaxOps
    /\ ops' = ops + 1
    /\ \E model \in ModelIds :
         /\ chats' = [chats EXCEPT ![model] = @ + 1]
         /\ IF ~base_url
            THEN /\ lastCall' = AgentCall("chat_completion", model, CachedType(model), FALSE, "none")
                 /\ UNCHANGED <<agent_types, probes>>
            ELSE \E v1 \in V1ModelsResponses, options \in BOOLEAN :
                   LET r == _get_agent_type(agent_types, model, v1, options) IN
                   /\ agent_types' = r.types
                   /\ probes' = [probes EXCEPT ![model] = IF r.probed THEN @ + 1 ELSE @]
                   /\ lastCall' = AgentCall("chat_completion", model, CachedType(model), r.probed,
                                            IF r.type = "openai" THEN "openai" ELSE "langserve")
    /\ UNCHANGED base_url
    /\ UNCHANGED notDetectVars

\* ------------------------------------------------ AgentProvider.list_models
\* The ids a remote service lists.
ListedIds == {"m1", "m2"}
\* Entries of one /v1/models answer.
MaxEntries == 2

\* An entry of data in the answer to GET /v1/models: an object with an id
\* ("id"), an object without one ("noid"), or a value that is not an object
\* ("nondict"), on which model.get raises.
V1Entry(kind, id) == [kind |-> kind, id |-> id]
V1Entries ==
    { V1Entry("id", m) : m \in ListedIds } \cup { V1Entry("noid", ""), V1Entry("nondict", "") }
\* The answer to GET /v1/models: no usable answer (a status other than 200 or
\* an exception of the client), or 200 with data.
V1Answer(ok, data) == [ok |-> ok, data |-> data]
V1Answers == { V1Answer(FALSE, <<>>) } \cup { V1Answer(TRUE, d) : d \in SeqsUpTo(V1Entries, MaxEntries) }

\* A key of paths in openapi.json: what precedes its last segment (without the
\* leading slash), the last segment, and whether it holds a path parameter.
ApiPath(id, tail, templated) == [id |-> id, tail |-> tail, templated |-> templated]
ApiPaths ==
    { ApiPath(m, "invoke", FALSE) : m \in ListedIds }
    \cup { ApiPath("", "invoke", FALSE), ApiPath("x", "invoke", TRUE),
           ApiPath("m1", "stream", FALSE) }
\* The answer to GET /openapi.json.
ApiAnswer(ok, paths) == [ok |-> ok, paths |-> paths]
ApiAnswers == { ApiAnswer(FALSE, {}) } \cup { ApiAnswer(TRUE, p) : p \in SUBSET ApiPaths }

\* What a list_models call did: the cache it left, the model ids it returned,
\* the (id, type) pairs it marked, and whether it requested openapi.json.
Listed(types, ids, marked, probed) ==
    [ran |-> TRUE, types |-> types, ids |-> ids, marked |-> marked, probed |-> probed]

\* Strategy 1, `for model in models_data`: from entry i on. raised is TRUE when
\* model.get raised, which leaves the try block with what was marked so far.
RECURSIVE ReadV1Entries(_, _, _, _, _)
ReadV1Entries(data, i, types, ids, marked) ==
    IF i > Len(data)
    THEN [raised |-> FALSE, types |-> types, ids |-> ids, marked |-> marked]
    ELSE CASE data[i].kind = "nondict" ->
                [raised |-> TRUE, types |-> types, ids |-> ids, marked |-> marked]
           [] data[i].kind = "noid" -> ReadV1Entries(data, i + 1, types, ids, marked)
           [] OTHER ->
                ReadV1Entries(data, i + 1, Put(types, data[i].id, "openai"),
                              ids \cup {data[i].id},
                              marked \cup {<<data[i].id, "openai">>})

\* Strategy 2: the ids of the paths that end with /invoke and hold no "{".
InvokeIds(paths) ==
    { p.id : p \in { q \in paths : q.tail = "invoke" /\ ~q.templated /\ q.id # "" } }

\* Strategy 2 and the fallback, after strategy 1 left the cache types and the
\* marks marked.
ListAfterV1(types, marked, openapi) ==
    IF openapi.ok /\ InvokeIds(openapi.paths) # {}
    THEN Listed(MarkAll(types, InvokeIds(openapi.paths), "langserve"),
                InvokeIds(openapi.paths),
                marked \cup { <<m, "langserve">> : m \in InvokeIds(openapi.paths) }, TRUE)
    ELSE Listed(Put(types, ExternalAgent, "unknown"), {ExternalAgent},
                marked \cup {<<ExternalAgent, "unknown">>}, TRUE)

\* AgentProvider.list_models()
ListModels(configured, types, v1, openapi) ==
    IF ~configured THEN Listed(types, {}, {}, FALSE)
    ELSE IF v1.ok /\ v1.data # <<>>
    THEN LET r == ReadV1Entries(v1.data, 1, types, {}, {}) IN
         IF r.raised THEN ListAfterV1(r.types, r.marked, openapi)
         ELSE Listed(r.types, r.ids, r.marked, FALSE)
    ELSE ListAfterV1(types, {}, openapi)

\* One call of list_models on the instance.
ListModelsCall ==
    /\ ~listed.ran
    /\ listed' = ListModels(base_url, agent_types, listing.v1, listing.openapi)
    /\ agent_types' = listed'.types
    /\ UNCHANGED <<base_url, probes, chats, lastCall, ops>>
    /\ UNCHANGED <<rest, regen, nonstream, listing>>
    /\ UNCHANGED <<adapterVars, streamVars, registryVars, catalogVars, healthVars, searchVars,
                   payloadVars, followUpVars, turnVars>>

\* ------------------------------------------------ AgentProvider._prepare_payload
Yo == <<"Yo">>
\* ChatMessage(role, content).to_dict()
ChatMessage(role, content) == [role |-> role, content |-> content]
ChatMessages == { ChatMessage(r, c) : r \in {"user", "assistant"}, c \in {Hi, Yo} }

\* Property names an input schema can declare.
PropNames == {"messages", "topic", "input", "question", "query"}

\* An input schema by what _prepare_payload reads of it: its "type" ("none":
\* no such key), whether it has a "properties" key, and the names under it.
\* NoSchema is the None that _get_input_schema returns when the fetch failed.
Schema(type, hasProperties, properties) ==
    [present |-> TRUE, type |-> type, hasProperties |-> hasProperties, properties |-> properties]
NoSchema == [present |-> FALSE, type |-> "none", hasProperties |-> FALSE, properties |-> {}]
Schemas ==
    {NoSchema}
    \cup { Schema(t, TRUE, props) : t \in {"object", "string", "none"}, props \in SUBSET PropNames }
    \cup { Schema(t, FALSE, {}) : t \in {"object", "string", "array", "none"} }

\* `if schema`: None and the empty object are false.
Truthy(schema) == schema.present /\ (schema.type # "none" \/ schema.hasProperties)

\* messages[-1].content if messages else ""
LastMessage(msgs) == IF Len(msgs) = 0 THEN EmptyText ELSE msgs[Len(msgs)].content

\* input_data: an object with one key, or a bare string.
InputObject(key, value) == [kind |-> "object", key |-> key, value |-> value]
InputString(text) == [kind |-> "string", key |-> "", value |-> text]
\* {"messages": [m.to_dict() for m in messages]}
InputMessages(msgs) == InputObject("messages", msgs)

\* The adaptive mapping with its single-property rule only.
MapInputWithoutNamedFallbacks(schema, msgs) ==
    IF Truthy(schema) /\ (schema.type = "object" \/ schema.hasProperties)
    THEN IF "messages" \in schema.properties THEN InputMessages(msgs)
         ELSE IF Cardinality(schema.properties) = 1
         THEN InputObject(CHOOSE p \in schema.properties : TRUE, LastMessage(msgs))
         ELSE InputMessages(msgs)
    ELSE IF Truthy(schema) /\ schema.type = "string" THEN InputString(LastMessage(msgs))
    ELSE InputMessages(msgs)

\* _prepare_payload, "Adaptive input mapping": input_data.
MapInput(schema, msgs) ==
    IF Truthy(schema) /\ (schema.type = "object" \/ schema.hasProperties)
    THEN IF "messages" \in schema.properties THEN InputMessages(msgs)
         ELSE IF Cardinality(schema.properties) = 1
         THEN InputObject(CHOOSE p \in schema.properties : TRUE, LastMessage(msgs))
         ELSE IF "topic" \in schema.properties THEN InputObject("topic", LastMessage(msgs))
         ELSE IF "input" \in schema.properties THEN InputObject("input", LastMessage(msgs))
         ELSE IF "question" \in schema.properties THEN InputObject("question", LastMessage(msgs))
         ELSE InputMessages(msgs)
    ELSE IF Truthy(schema) /\ schema.type = "string" THEN InputString(LastMessage(msgs))
    ELSE InputMessages(msgs)

\* {"configurable": {"temperature": temperature, **kwargs}}
Config(temperature, kw) == [configurable |-> [temperature |-> temperature, kwargs |-> kw]]

\* A payload that always carries the config wrapper.
PreparePayloadAlwaysConfig(schema, msgs, temperature, kw) ==
    [input |-> MapInput(schema, msgs), config |-> Config(temperature, kw)]

\* AgentProvider._prepare_payload(model, messages, temperature, **kwargs)
_prepare_payload(schema, msgs, temperature, kw) ==
    IF MapInput(schema, msgs).kind = "object"
    THEN [input |-> MapInput(schema, msgs), config |-> Config(temperature, kw)]
    ELSE [input |-> MapInput(schema, msgs)]

NoPayload == [none |-> TRUE]

\* payload = await self._prepare_payload(model, messages, temperature, **kwargs)
PreparePayload ==
    /\ payload = NoPayload
    /\ payload' = _prepare_payload(input_schema, chat_messages, "0.7", kwargs)
    /\ UNCHANGED <<input_schema, chat_messages, kwargs>>
    /\ UNCHANGED notPayloadVars

\* ------------------------------------------------ health
\* How an adapter behaves when its health is checked: what validate_connection
\* and list_models do, or health_check itself raising (an adapter overriding it).
Behaviours == {"healthy", "unreachable", "validate raises", "list_models raises",
               "health_check raises"}

HealthEntry(provider, status, available, error) ==
    [provider |-> provider, status |-> status, available |-> available, error |-> error]

\* LLMProvider.health_check: the dict returned; provider_name is the class's name.
health_check(inst, behaviour) ==
    CASE behaviour = "healthy" -> HealthEntry(inst.type, "healthy", TRUE, FALSE)
      [] behaviour = "unreachable" -> HealthEntry(inst.type, "unhealthy", FALSE, FALSE)
      [] OTHER -> HealthEntry(inst.type, "error", FALSE, TRUE)

\* An except branch that reports the provider as merely unhealthy.
OnHealthErrorUnhealthy(name) == HealthEntry(name, "unhealthy", FALSE, TRUE)

\* get_all_health_status: the except branch around future.result().
OnHealthError(name) == HealthEntry(name, "error", FALSE, TRUE)

\* get_all_health_status: the entry stored for a completed future.
HealthResult(name, inst, behaviour) ==
    IF behaviour = "health_check raises"
    THEN OnHealthError(name)
    ELSE health_check(inst, behaviour)

NoHealth == [pc |-> "idle", pending |-> {}, health_status |-> EmptyMap,
             names |-> {}, behaviour |-> EmptyMap]


\* get_all_health_status up to the submission of one health_check per provider.
get_all_health_status ==
    /\ health.pc # "collecting"
    /\ healthCalls < MaxHealthCalls
    /\ healthCalls' = healthCalls + 1
    /\ \E b \in [list_providers -> Behaviours] :
         health' = [pc |-> "collecting", pending |-> list_providers,
                    health_status |-> EmptyMap, names |-> list_providers, behaviour |-> b]
    /\ UNCHANGED notHealthVars

\* One iteration of `for future in concurrent.futures.as_completed(...)`.
HealthComplete ==
    /\ health.pc = "collecting"
    /\ \E name \in health.pending :
         health' = [health EXCEPT
                      !.pending = @ \ {name},
                      !.health_status =
                          Put(@, name, HealthResult(name, providers[name], health.behaviour[name]))]
    /\ UNCHANGED healthCalls
    /\ UNCHANGED notHealthVars

\* return health_status
HealthReturn ==
    /\ health.pc = "collecting"
    /\ health.pending = {}
    /\ health' = [health EXCEPT !.pc = "returned"]
    /\ UNCHANGED healthCalls
    /\ UNCHANGED notHealthVars


\* ------------------------------------------------ specifications
\* An adapter's stream parser applied to one upstream body.
InitAdapter ==
    /\ protocol \in Protocols
    /\ body \in BodiesOf(protocol)
    /\ emitted = NoOutput
    /\ upstream = NoOutput /\ convExists = FALSE /\ providerRegistered = FALSE
    /\ pc = "done" /\ stopped_generations = {} /\ events = <<>> /\ stops = 0
    /\ messages = <<>> /\ gen = NoGen /\ chunk = NoChunk /\ bridge_content = EmptyText
    /\ providers = EmptyMap /\ configs = {} /\ init = NoInit /\ reinits = 0
    /\ observed = NotObserved
    /\ model_cache = EmptyMap /\ last_refresh = EmptyMap /\ now = 0 /\ ticks = 0
    /\ fetchCalls = [name \in ProviderIds |-> 0] /\ lam = NoCall /\ calls = 0
    /\ health = NoHealth /\ healthCalls = 0
    /\ search = NoSearch
    /\ base_url = FALSE /\ agent_types = EmptyMap /\ probes = [m \in ModelIds |-> 0]
    /\ chats = [m \in ModelIds |-> 0] /\ lastCall = NoAgentCall /\ ops = 0
    /\ input_schema = NoSchema /\ chat_messages = <<>> /\ kwargs = {} /\ payload = NoPayload
    /\ fuFound = FALSE /\ fuReply = Reply(FALSE, <<>>) /\ fuResult = NotGenerated
    /\ rest = NoRest /\ regen = NoRegen /\ nonstream = NoNonStream
    /\ listing = NoListing /\ listed = NotListed
    /\ turns = NoTurns
NextAdapter == RunAdapter
SpecAdapter == InitAdapter /\ [][NextAdapter]_vars

\* One streaming turn of a conversation, with stop requests from the socket thread.
InitStream ==
    /\ protocol = "unconfigured" /\ body = <<>> /\ emitted = NoOutput
    /\ upstream \in AdapterOutputs
    /\ convExists \in BOOLEAN
    /\ providerRegistered \in BOOLEAN
    /\ messages \in History
    /\ pc = "idle" /\ stopped_generations = {} /\ events = <<>> /\ stops = 0
    /\ gen = NoGen /\ chunk = NoChunk /\ bridge_content = EmptyText
    /\ providers = EmptyMap /\ configs = {} /\ init = NoInit /\ reinits = 0
    /\ observed = NotObserved
    /\ model_cache = EmptyMap /\ last_refresh = EmptyMap /\ now = 0 /\ ticks = 0
    /\ fetchCalls = [name \in ProviderIds |-> 0] /\ lam = NoCall /\ calls = 0
    /\ health = NoHealth /\ healthCalls = 0
    /\ search = NoSearch
    /\ base_url = FALSE /\ agent_types = EmptyMap /\ probes = [m \in ModelIds |-> 0]
    /\ chats = [m \in ModelIds |-> 0] /\ lastCall = NoAgentCall /\ ops = 0
    /\ input_schema = NoSchema /\ chat_messages = <<>> /\ kwargs = {} /\ payload = NoPayload
    /\ fuFound = FALSE /\ fuReply = Reply(FALSE, <<>>) /\ fuResult = NotGenerated
    /\ rest = NoRest /\ regen = NoRegen /\ nonstream = NoNonStream
    /\ listing = NoListing /\ listed = NotListed
    /\ turns = NoTurns
NextStream ==
    \/ Start
    \/ EmitStreamStart
    \/ Prepare
    \/ Pull
    \/ CheckStopped
    \/ EmitChunk
    \/ AfterLoop
    \/ Except
    \/ Finally
    \/ StopGeneration
SpecStream == InitStream /\ [][NextStream]_vars

\* The registry as the import-time initialize_providers() left it, the catalog
\* and the health check not yet used.
InitFactory ==
    /\ protocol = "unconfigured" /\ body = <<>> /\ emitted = NoOutput
    /\ upstream = NoOutput /\ convExists = FALSE /\ providerRegistered = FALSE
    /\ pc = "done" /\ stopped_generations = {} /\ events = <<>> /\ stops = 0
    /\ messages = <<>> /\ gen = NoGen /\ chunk = NoChunk /\ bridge_content = EmptyText
    /\ \E list \in SettingsLists : providers = RegisterAll(EmptyMap, list, 1, 0)
    /\ configs = DOMAIN providers
    /\ init = NoInit /\ reinits = 0 /\ observed = NotObserved
    /\ model_cache = EmptyMap /\ last_refresh = EmptyMap /\ now = 0 /\ ticks = 0
    /\ fetchCalls = [name \in ProviderIds |-> 0] /\ lam = NoCall /\ calls = 0
    /\ health = NoHealth /\ healthCalls = 0
    /\ search = NoSearch
    /\ base_url = FALSE /\ agent_types = EmptyMap /\ probes = [m \in ModelIds |-> 0]
    /\ chats = [m \in ModelIds |-> 0] /\ lastCall = NoAgentCall /\ ops = 0
    /\ input_schema = NoSchema /\ chat_messages = <<>> /\ kwargs = {} /\ payload = NoPayload
    /\ fuFound = FALSE /\ fuReply = Reply(FALSE, <<>>) /\ fuResult = NotGenerated
    /\ rest = NoRest /\ regen = NoRegen /\ nonstream = NoNonStream
    /\ listing = NoListing /\ listed = NotListed
    /\ turns = NoTurns

\* initialize_providers running beside readers of the registry.
NextRegistry ==
    \/ ReinitBegin
    \/ ClearProviders
    \/ ClearConfigs
    \/ RegisterNext
    \/ RegisterDefault
    \/ ReinitEnd
    \/ ReadRegistry
SpecRegistry == InitFactory /\ [][NextRegistry]_vars

\* list_all_models calls over a fixed registry, as the clock advances.
NextCatalog ==
    \/ LamBegin
    \/ LamComplete
    \/ LamReturn
    \/ Tick
SpecCatalog == InitFactory /\ [][NextCatalog]_vars

\* get_all_health_status over a fixed registry.
NextHealth ==
    \/ get_all_health_status
    \/ HealthComplete
    \/ HealthReturn
SpecHealth == InitFactory /\ [][NextHealth]_vars

\* search_models calls over a fixed registry, as the clock advances.
NextSearch ==
    \/ search_models
    \/ LamComplete
    \/ LamReturn
    \/ SearchReturn
    \/ Tick
SpecSearch == InitFactory /\ [][NextSearch]_vars

\* initialize_providers running beside one list_all_models call.
InitReinit ==
    /\ protocol = "unconfigured" /\ body = <<>> /\ emitted = NoOutput
    /\ upstream = NoOutput /\ convExists = FALSE /\ providerRegistered = FALSE
    /\ pc = "done" /\ stopped_generations = {} /\ events = <<>> /\ stops = 0
    /\ messages = <<>> /\ gen = NoGen /\ chunk = NoChunk /\ bridge_content = EmptyText
    /\ \E list \in StartupLists : providers = RegisterAll(EmptyMap, list, 1, 0)
    /\ configs = DOMAIN providers
    /\ init = NoInit /\ reinits = 0 /\ observed = NotObserved
    /\ model_cache = EmptyMap /\ last_refresh = EmptyMap /\ now = 0 /\ ticks = 0
    /\ fetchCalls = [name \in ProviderIds |-> 0] /\ lam = NoCall /\ calls = 0
    /\ health = NoHealth /\ healthCalls = 0
    /\ search = NoSearch
    /\ base_url = FALSE /\ agent_types = EmptyMap /\ probes = [m \in ModelIds |-> 0]
    /\ chats = [m \in ModelIds |-> 0] /\ lastCall = NoAgentCall /\ ops = 0
    /\ input_schema = NoSchema /\ chat_messages = <<>> /\ kwargs = {} /\ payload = NoPayload
    /\ fuFound = FALSE /\ fuReply = Reply(FALSE, <<>>) /\ fuResult = NotGenerated
    /\ rest = NoRest /\ regen = NoRegen /\ nonstream = NoNonStream
    /\ listing = NoListing /\ listed = NotListed
    /\ turns = NoTurns

NextReinit ==
    \/ ReinitBegin
    \/ ClearProviders
    \/ ClearConfigs
    \/ RegisterNext
    \/ RegisterRaises
    \/ RegisterDefault
    \/ ReinitEnd
    \/ ConcurrentListing
    \/ LamComplete
    \/ LamReturn
SpecReinit == InitReinit /\ [][NextReinit]_vars

\* Two send_message events for one conversation, and stop requests.
InitTurns ==
    /\ protocol = "unconfigured" /\ body = <<>> /\ emitted = NoOutput
    /\ upstream = NoOutput /\ convExists = TRUE /\ providerRegistered = TRUE
    /\ pc = "done" /\ stopped_generations = {} /\ events = <<>> /\ stops = 0
    /\ messages = <<>> /\ gen = NoGen /\ chunk = NoChunk /\ bridge_content = EmptyText
    /\ providers = EmptyMap /\ configs = {} /\ init = NoInit /\ reinits = 0
    /\ observed = NotObserved
    /\ model_cache = EmptyMap /\ last_refresh = EmptyMap /\ now = 0 /\ ticks = 0
    /\ fetchCalls = [name \in ProviderIds |-> 0] /\ lam = NoCall /\ calls = 0
    /\ health = NoHealth /\ healthCalls = 0
    /\ search = NoSearch
    /\ base_url = FALSE /\ agent_types = EmptyMap /\ probes = [m \in ModelIds |-> 0]
    /\ chats = [m \in ModelIds |-> 0] /\ lastCall = NoAgentCall /\ ops = 0
    /\ input_schema = NoSchema /\ chat_messages = <<>> /\ kwargs = {} /\ payload = NoPayload
    /\ fuFound = FALSE /\ fuReply = Reply(FALSE, <<>>) /\ fuResult = NotGenerated
    /\ rest = NoRest /\ regen = NoRegen /\ nonstream = NoNonStream
    /\ listing = NoListing /\ listed = NotListed
    /\ turns = NoTurns

NextTurns ==
    \/ \E t \in TurnIds : TurnStart(t)
    \/ \E t \in TurnIds : TurnChunk(t)
    \/ \E t \in TurnIds : TurnExhausted(t)
    \/ \E t \in TurnIds : TurnFinally(t)
    \/ TurnStop
SpecTurns == InitTurns /\ [][NextTurns]_vars

\* One streaming call on an adapter of any kind.
InitChunks ==
    /\ protocol \in AdapterKinds
    /\ body \in StreamInputs(protocol)
    /\ emitted = NoOutput
    /\ upstream = NoOutput /\ convExists = FALSE /\ providerRegistered = FALSE
    /\ pc = "done" /\ stopped_generations = {} /\ events = <<>> /\ stops = 0
    /\ messages = <<>> /\ gen = NoGen /\ chunk = NoChunk /\ bridge_content = EmptyText
    /\ providers = EmptyMap /\ configs = {} /\ init = NoInit /\ reinits = 0
    /\ observed = NotObserved
    /\ model_cache = EmptyMap /\ last_refresh = EmptyMap /\ now = 0 /\ ticks = 0
    /\ fetchCalls = [name \in ProviderIds |-> 0] /\ lam = NoCall /\ calls = 0
    /\ health = NoHealth /\ healthCalls = 0
    /\ search = NoSearch
    /\ base_url = FALSE /\ agent_types = EmptyMap /\ probes = [m \in ModelIds |-> 0]
    /\ chats = [m \in ModelIds |-> 0] /\ lastCall = NoAgentCall /\ ops = 0
    /\ input_schema = NoSchema /\ chat_messages = <<>> /\ kwargs = {} /\ payload = NoPayload
    /\ fuFound = FALSE /\ fuReply = Reply(FALSE, <<>>) /\ fuResult = NotGenerated
    /\ rest = NoRest /\ regen = NoRegen /\ nonstream = NoNonStream
    /\ listing = NoListing /\ listed = NotListed
    /\ turns = NoTurns

NextChunks == RunStream
SpecChunks == InitChunks /\ [][NextChunks]_vars

\* A freshly constructed AgentProvider and the calls made on it.
InitDetect ==
    /\ protocol = "unconfigured" /\ body = <<>> /\ emitted = NoOutput
    /\ upstream = NoOutput /\ convExists = FALSE /\ providerRegistered = FALSE
    /\ pc = "done" /\ stopped_generations = {} /\ events = <<>> /\ stops = 0
    /\ messages = <<>> /\ gen = NoGen /\ chunk = NoChunk /\ bridge_content = EmptyText
    /\ providers = EmptyMap /\ configs = {} /\ init = NoInit /\ reinits = 0
    /\ observed = NotObserved
    /\ model_cache = EmptyMap /\ last_refresh = EmptyMap /\ now = 0 /\ ticks = 0
    /\ fetchCalls = [name \in ProviderIds |-> 0] /\ lam = NoCall /\ calls = 0
    /\ health = NoHealth /\ healthCalls = 0
    /\ search = NoSearch
    /\ base_url \in BOOLEAN
    /\ agent_types = EmptyMap /\ probes = [m \in ModelIds |-> 0]
    /\ chats = [m \in ModelIds |-> 0] /\ lastCall = NoAgentCall /\ ops = 0
    /\ input_schema = NoSchema /\ chat_messages = <<>> /\ kwargs = {} /\ payload = NoPayload
    /\ fuFound = FALSE /\ fuReply = Reply(FALSE, <<>>) /\ fuResult = NotGenerated
    /\ rest = NoRest /\ regen = NoRegen /\ nonstream = NoNonStream
    /\ listing = NoListing /\ listed = NotListed
    /\ turns = NoTurns
NextDetect ==
    \/ AgentListModels
    \/ AgentGetModelInfo
    \/ AgentChatCompletion
SpecDetect == InitDetect /\ [][NextDetect]_vars

\* _prepare_payload applied to one schema and one message history.
InitPayload ==
    /\ protocol = "unconfigured" /\ body = <<>> /\ emitted = NoOutput
    /\ upstream = NoOutput /\ convExists = FALSE /\ providerRegistered = FALSE
    /\ pc = "done" /\ stopped_generations = {} /\ events = <<>> /\ stops = 0
    /\ messages = <<>> /\ gen = NoGen /\ chunk = NoChunk /\ bridge_content = EmptyText
    /\ providers = EmptyMap /\ configs = {} /\ init = NoInit /\ reinits = 0
    /\ observed = NotObserved
    /\ model_cache = EmptyMap /\ last_refresh = EmptyMap /\ now = 0 /\ ticks = 0
    /\ fetchCalls = [name \in ProviderIds |-> 0] /\ lam = NoCall /\ calls = 0
    /\ health = NoHealth /\ healthCalls = 0
    /\ search = NoSearch
    /\ base_url = TRUE /\ agent_types = EmptyMap /\ probes = [m \in ModelIds |-> 0]
    /\ chats = [m \in ModelIds |-> 0] /\ lastCall = NoAgentCall /\ ops = 0
    /\ input_schema \in Schemas
    /\ chat_messages \in SeqsUpTo(ChatMessages, MaxHistory)
    /\ kwargs \in SUBSET {"thread_id"}
    /\ payload = NoPayload
    /\ fuFound = FALSE /\ fuReply = Reply(FALSE, <<>>) /\ fuResult = NotGenerated
    /\ rest = NoRest /\ regen = NoRegen /\ nonstream = NoNonStream
    /\ listing = NoListing /\ listed = NotListed
    /\ turns = NoTurns
NextPayload == PreparePayload
SpecPayload == InitPayload /\ [][NextPayload]_vars

\* A streaming turn whose adapter's done chunk was just forwarded: the generator
\* is about to generate the follow-ups and save the assistant message.
InitFollowUps ==
    /\ protocol = "unconfigured" /\ body = <<>> /\ emitted = NoOutput
    /\ upstream = Output(<<ChatCompletionChunk(Hi, TRUE)>>, FALSE)
    /\ convExists = TRUE /\ providerRegistered = TRUE
    /\ pc = "pull" /\ stopped_generations = {} /\ stops = 0
    /\ events = << Event("stream_start", NoChunk, "none"),
                   Event("stream_chunk", Yielded(ChatCompletionChunk(Hi, TRUE)), "none") >>
    /\ messages = << Message("user", Hi, "this", FALSE) >>
    /\ gen = [NoGen EXCEPT !.pc = "afterYield", !.idx = 1, !.full_content = Hi,
                           !.last_done = TRUE, !.invoked = TRUE]
    /\ chunk = Yielded(ChatCompletionChunk(Hi, TRUE)) /\ bridge_content = Hi
    /\ providers = EmptyMap /\ configs = {} /\ init = NoInit /\ reinits = 0
    /\ observed = NotObserved
    /\ model_cache = EmptyMap /\ last_refresh = EmptyMap /\ now = 0 /\ ticks = 0
    /\ fetchCalls = [name \in ProviderIds |-> 0] /\ lam = NoCall /\ calls = 0
    /\ health = NoHealth /\ healthCalls = 0
    /\ search = NoSearch
    /\ base_url = FALSE /\ agent_types = EmptyMap /\ probes = [m \in ModelIds |-> 0]
    /\ chats = [m \in ModelIds |-> 0] /\ lastCall = NoAgentCall /\ ops = 0
    /\ input_schema = NoSchema /\ chat_messages = <<>> /\ kwargs = {} /\ payload = NoPayload
    /\ fuFound \in BOOLEAN
    /\ fuReply \in Replies
    /\ fuResult = NotGenerated
    /\ rest = NoRest /\ regen = NoRegen /\ nonstream = NoNonStream
    /\ listing = NoListing /\ listed = NotListed
    /\ turns = NoTurns
NextFollowUps == ResumeWithFollowUps
SpecFollowUps == InitFollowUps /\ [][NextFollowUps]_vars

\* One request to POST /v1/chat/completions with stream=true.
InitRest ==
    /\ protocol = "unconfigured" /\ body = <<>> /\ emitted = NoOutput
    /\ upstream \in AdapterOutputs
    /\ convExists \in BOOLEAN
    /\ providerRegistered \in BOOLEAN
    /\ messages \in History
    /\ pc = "idle" /\ stopped_generations = {} /\ events = <<>> /\ stops = 0
    /\ gen = NoGen /\ chunk = NoChunk /\ bridge_content = EmptyText
    /\ providers = EmptyMap /\ configs = {} /\ init = NoInit /\ reinits = 0
    /\ observed = NotObserved
    /\ model_cache = EmptyMap /\ last_refresh = EmptyMap /\ now = 0 /\ ticks = 0
    /\ fetchCalls = [name \in ProviderIds |-> 0] /\ lam = NoCall /\ calls = 0
    /\ health = NoHealth /\ healthCalls = 0
    /\ search = NoSearch
    /\ base_url = FALSE /\ agent_types = EmptyMap /\ probes = [m \in ModelIds |-> 0]
    /\ chats = [m \in ModelIds |-> 0] /\ lastCall = NoAgentCall /\ ops = 0
    /\ input_schema = NoSchema /\ chat_messages = <<>> /\ kwargs = {} /\ payload = NoPayload
    /\ fuFound = FALSE /\ fuReply = Reply(FALSE, <<>>) /\ fuResult = NotGenerated
    /\ rest = NoRest /\ regen = NoRegen /\ nonstream = NoNonStream
    /\ listing = NoListing /\ listed = NotListed
    /\ turns = NoTurns
NextRest ==
    \/ RestStart
    \/ RestPull
    \/ RestForward
    \/ RestFinally
SpecRest == InitRest /\ [][NextRest]_vars

\* One non-streaming completion, for every adapter and every answer of its
\* upstream; the user message of the turn is saved.
InitNonStream ==
    /\ protocol \in AdapterKinds
    /\ body \in { <<a>> : a \in Answers \cup { Answer("nokey", EmptyText) } }
    /\ body[1] \in AnswersOf(protocol)
    /\ emitted = NoOutput
    /\ upstream = NoOutput /\ convExists = TRUE
    /\ providerRegistered \in BOOLEAN
    /\ pc = "idle" /\ stopped_generations = {} /\ events = <<>> /\ stops = 0
    /\ messages \in { Append(h, Message("user", Hi, "this", FALSE)) : h \in History }
    /\ gen = NoGen /\ chunk = NoChunk /\ bridge_content = EmptyText
    /\ providers = EmptyMap /\ configs = {} /\ init = NoInit /\ reinits = 0
    /\ observed = NotObserved
    /\ model_cache = EmptyMap /\ last_refresh = EmptyMap /\ now = 0 /\ ticks = 0
    /\ fetchCalls = [name \in ProviderIds |-> 0] /\ lam = NoCall /\ calls = 0
    /\ health = NoHealth /\ healthCalls = 0
    /\ search = NoSearch
    /\ base_url = FALSE /\ agent_types = EmptyMap /\ probes = [m \in ModelIds |-> 0]
    /\ chats = [m \in ModelIds |-> 0] /\ lastCall = NoAgentCall /\ ops = 0
    /\ input_schema = NoSchema /\ chat_messages = <<>> /\ kwargs = {} /\ payload = NoPayload
    /\ fuFound = FALSE /\ fuReply = Reply(FALSE, <<>>) /\ fuResult = NotGenerated
    /\ rest = NoRest /\ regen = NoRegen /\ nonstream = NoNonStream
    /\ listing = NoListing /\ listed = NotListed
    /\ turns = NoTurns
NextNonStream == NonStreamTurn
SpecNonStream == InitNonStream /\ [][NextNonStream]_vars

\* One chat_completion call, ordinary or regenerate, on a stored conversation.
InitRegenerate ==
    /\ protocol = "unconfigured" /\ body = <<>> /\ emitted = NoOutput
    /\ upstream = NoOutput /\ convExists = TRUE /\ providerRegistered = TRUE
    /\ pc = "idle" /\ stopped_generations = {} /\ events = <<>> /\ stops = 0
    /\ messages \in Conversations
    /\ gen = NoGen /\ chunk = NoChunk /\ bridge_content = EmptyText
    /\ providers = EmptyMap /\ configs = {} /\ init = NoInit /\ reinits = 0
    /\ observed = NotObserved
    /\ model_cache = EmptyMap /\ last_refresh = EmptyMap /\ now = 0 /\ ticks = 0
    /\ fetchCalls = [name \in ProviderIds |-> 0] /\ lam = NoCall /\ calls = 0
    /\ health = NoHealth /\ healthCalls = 0
    /\ search = NoSearch
    /\ base_url = FALSE /\ agent_types = EmptyMap /\ probes = [m \in ModelIds |-> 0]
    /\ chats = [m \in ModelIds |-> 0] /\ lastCall = NoAgentCall /\ ops = 0
    /\ input_schema = NoSchema /\ chat_messages = <<>> /\ kwargs = {} /\ payload = NoPayload
    /\ fuFound = FALSE /\ fuReply = Reply(FALSE, <<>>) /\ fuResult = NotGenerated
    /\ rest = NoRest /\ regen = NoRegen /\ nonstream = NoNonStream
    /\ listing = NoListing /\ listed = NotListed
    /\ turns = NoTurns
NextRegenerate ==
    \/ ChatCompletionCall
    \/ Dispatch
SpecRegenerate == InitRegenerate /\ [][NextRegenerate]_vars

\* One list_models call on an AgentProvider instance, for every pair of
\* answers of the remote service.
InitListModels ==
    /\ protocol = "unconfigured" /\ body = <<>> /\ emitted = NoOutput
    /\ upstream = NoOutput /\ convExists = TRUE /\ providerRegistered = TRUE
    /\ pc = "idle" /\ stopped_generations = {} /\ events = <<>> /\ stops = 0
    /\ messages = <<>> /\ gen = NoGen /\ chunk = NoChunk /\ bridge_content = EmptyText
    /\ providers = EmptyMap /\ configs = {} /\ init = NoInit /\ reinits = 0
    /\ observed = NotObserved
    /\ model_cache = EmptyMap /\ last_refresh = EmptyMap /\ now = 0 /\ ticks = 0
    /\ fetchCalls = [name \in ProviderIds |-> 0] /\ lam = NoCall /\ calls = 0
    /\ health = NoHealth /\ healthCalls = 0
    /\ search = NoSearch
    /\ base_url \in BOOLEAN
    /\ agent_types \in {EmptyMap, Put(EmptyMap, "m1", "langserve")}
    /\ probes = [m \in ModelIds |-> 0]
    /\ chats = [m \in ModelIds |-> 0] /\ lastCall = NoAgentCall /\ ops = 0
    /\ input_schema = NoSchema /\ chat_messages = <<>> /\ kwargs = {} /\ payload = NoPayload
    /\ fuFound = FALSE /\ fuReply = Reply(FALSE, <<>>) /\ fuResult = NotGenerated
    /\ rest = NoRest /\ regen = NoRegen /\ nonstream = NoNonStream
    /\ listing \in { [set |-> TRUE, v1 |-> a, openapi |-> b] : a \in V1Answers, b \in ApiAnswers }
    /\ listed = NotListed
    /\ turns = NoTurns
NextListModels == ListModelsCall
SpecListModels == InitListModels /\ [][NextListModels]_vars


\* ------------------------------------------------ claims: the streaming turn
\* Assistant messages the turn in progress has persisted.
AssistantSaves ==
    Cardinality({ i \in 1..Len(messages) :
                    messages[i].role = "assistant" /\ messages[i].turn = "this" })
HasDone(chunks) == \E i \in 1..Len(chunks) : chunks[i].done
\* The generator consumed the adapter's whole sequence and ran its final check.
Exhausted == gen.pc \in {"closed", "afterFinalFollowUps"}
\* What the turn itself emitted to the room.
TurnEvents == SelectSeq(events, LAMBDA e : e.name # "generation_stopped")
\* stream_start, then stream_chunk events only, then one event named last.
IsStreamTrace(e, last) ==
    /\ Len(e) >= 2
    /\ e[1].name = "stream_start"
    /\ e[Len(e)].name = last
    /\ \A i \in 2..(Len(e) - 1) : e[i].name = "stream_chunk"
\* The orchestrator or the adapter raised during the turn.
TurnRaised == ~convExists \/ gen.pc = "raised"

\* C1: whatever chunk sequence the adapter produces, one streaming turn
\* persists at most one assistant message.
C1_SavedAtMostOnce == AssistantSaves <= 1

\* C2: once the adapter's sequence is exhausted, the fallback after the loop has
\* persisted exactly one assistant message if no done chunk came and text was
\* accumulated, and nothing if a done chunk came.
C2_FinalFlush ==
    Exhausted =>
        IF HasDone(upstream.chunks)
        THEN gen.flushes = 0
        ELSE gen.full_content # EmptyText => (gen.flushes = 1 /\ AssistantSaves = 1)
C2_Witness ==
    /\ pc = "done"
    /\ Exhausted
    /\ ~HasDone(upstream.chunks)
    /\ gen.full_content # EmptyText
    /\ gen.flushes = 1
    /\ AssistantSaves = 1

\* The agent adapter's loop over the body was left by an exception.
BodyFails ==
    \/ protocol = "openai" /\ OpenAILoop(body, 1, <<>>).how = "exc"
    \/ protocol = "langserve" /\ LangServeLoop(body, 1, <<>>).how = "exc"
\* C3: for an SSE body that does not fail, on either agent protocol, the chunks
\* emitted hold exactly one done chunk, which is the last one and is empty.
C3_OneTerminalDone ==
    (emitted.ran /\ protocol \in {"openai", "langserve"} /\ ~BodyFails) =>
        LET c == emitted.chunks IN
        /\ Len(c) >= 1
        /\ c[Len(c)] = ChatCompletionChunk(EmptyText, TRUE)
        /\ \A i \in 1..(Len(c) - 1) : ~c[i].done

C5_NoChunkAfterStop ==
    \A i, j \in 1..Len(events) :
        (/\ i < j
         /\ events[i].name = "generation_stopped"
         /\ \E k \in 1..(i - 1) : events[k].name = "stream_start")
        => events[j].name # "stream_chunk"

\* C6: the step that ends process_chat_message_async leaves the conversation
\* id out of stopped_generations, whether the turn succeeded, raised or was
\* stopped.
C6_FlagClearedAtEnd ==
    [][(pc # "done" /\ pc' = "done") => ConvId \notin stopped_generations']_vars
\* A stop request arrived after stream_end and before the finally block.
C6_Witness ==
    /\ pc = "done"
    /\ Len(events) >= 2
    /\ events[Len(events)].name = "generation_stopped"
    /\ ConvId \notin stopped_generations

\* The error texts the agent adapter puts in a chunk.
ErrorTexts == {ErrOpenAI, ErrOpenAITail, ErrLangServe}
\* The Ollama body breaks (the transport raises) before a done line came.
OllamaFails ==
    /\ protocol = "ollama"
    /\ \E i \in 1..Len(body) :
         /\ body[i].kind = "neterr"
         /\ \A j \in 1..(i - 1) : ~(body[j].kind = "msg" /\ body[j].done)
\* C17: a failure inside a streaming chat_completion ends the chunk sequence
\* with a done chunk that carries the error text, and no exception leaves the
\* adapter.
C17_FailureIsTerminalChunk ==
    (emitted.ran /\ (BodyFails \/ OllamaFails \/ protocol = "unconfigured")) =>
        /\ ~emitted.raises
        /\ Len(emitted.chunks) >= 1
        /\ emitted.chunks[Len(emitted.chunks)].done
        /\ emitted.chunks[Len(emitted.chunks)].content \in ErrorTexts \cup {ErrNotConfigured}

\* The adapter's stream broke: it raised, or it ended with an error chunk.
UpstreamFailed ==
    \/ upstream.raises
    \/ \E i \in 1..Len(upstream.chunks) : upstream.chunks[i].content \in ErrorTexts
\* The text of chunks[1..i] that came from the model.
RECURSIVE PartialContent(_, _)
PartialContent(chunks, i) ==
    IF i = 0 THEN EmptyText
    ELSE IF chunks[i].content \in ErrorTexts THEN PartialContent(chunks, i - 1)
    ELSE PartialContent(chunks, i - 1) \o chunks[i].content
\* C18: when the adapter's stream broke during a turn that was not stopped, an
\* assistant message is persisted if some content had been accumulated, and
\* none is persisted if nothing had been.
C18_PartialPersistedOnFailure ==
    (/\ pc = "done" /\ convExists /\ providerRegistered
     /\ UpstreamFailed
     /\ gen.pc \in {"closed", "raised"} /\ gen.idx = Len(upstream.chunks)) =>
        IF PartialContent(upstream.chunks, Len(upstream.chunks)) # EmptyText
        THEN AssistantSaves >= 1
        ELSE AssistantSaves = 0

\* C19: a turn on a conversation whose provider id is not registered ends with
\* an error: the adapter was not called, no stream_chunk was emitted and no
\* assistant message was persisted.
C19_MissingProviderEndsTurn ==
    (pc = "done" /\ convExists /\ ~providerRegistered) =>
        /\ ~gen.invoked
        /\ gen.pc = "raised"
        /\ \A i \in 1..Len(events) : events[i].name # "stream_chunk"
        /\ AssistantSaves = 0
        /\ IsStreamTrace(TurnEvents, "error")
\* Such a turn, for an adapter that would have produced chunks.
C19_Witness ==
    /\ pc = "done" /\ convExists /\ ~providerRegistered
    /\ Len(upstream.chunks) > 0
    /\ Len(messages) > 0 /\ messages[Len(messages)].role = "user"
    /\ TurnEvents[Len(TurnEvents)].name = "error"

\* ------------------------------------------------ claims: registry and catalog
\* The provider map initialize_providers is building.
NewMap ==
    IF init.path = "defaults"
    THEN [name \in (DOMAIN init.old) \cup ProviderTypes |->
            IF name \in ProviderTypes THEN Instance(name, reinits) ELSE init.old[name]]
    ELSE RegisterAll(EmptyMap, init.settings, 1, reinits)

\* C7: a reader that runs during initialize_providers sees the whole old
\* provider map or the whole new one.
C7_ReaderSeesOldOrNew ==
    (observed.seen /\ observed.during) => observed.map \in {init.old, NewMap}

\* C8: the map get_all_health_status returns has one entry per registered
\* provider: an error entry where the health check threw, and the provider's own
\* health check result everywhere else.
C8_HealthMap ==
    health.pc = "returned" =>
        /\ DOMAIN health.health_status = list_providers
        /\ \A name \in list_providers :
             LET e == health.health_status[name] IN
             IF health.behaviour[name] = "health_check raises"
             THEN e.status = "error" /\ ~e.available
             ELSE e = health_check(providers[name], health.behaviour[name])
C8_Witness ==
    /\ health.pc = "returned"
    /\ \E a, b \in list_providers :
         /\ a # b
         /\ health.behaviour[a] = "health_check raises"
         /\ health.behaviour[b] = "healthy"
         /\ health.health_status[a].status = "error"
         /\ health.health_status[b].status = "healthy"

\* The providers whose entry was missing or at least CacheTTL old when the call began.
Stale(snap) ==
    { name \in snap.names :
        name \notin DOMAIN snap.cache \/ snap.at - Get(snap.last, name, 0) >= CacheTTL }

\* C9: without force_refresh, list_models is called on exactly the providers
\* with no cache entry or one at least 300 s old; the others are served from the
\* cache, and their cached list and timestamp stay as they were.
C9_FetchIffStale ==
    (lam.pc \in {"fetching", "returned"} /\ ~lam.force) =>
        /\ lam.called = Stale(lam.snap)
        /\ \A name \in lam.snap.names \ lam.called :
             /\ lam.all_models[name] = lam.snap.cache[name]
             /\ name \in DOMAIN model_cache /\ name \in DOMAIN last_refresh
             /\ model_cache[name] = lam.snap.cache[name]
             /\ last_refresh[name] = lam.snap.last[name]
\* One provider re-fetched at exactly the TTL beside one served from the cache.
C9_Witness ==
    /\ lam.pc = "returned"
    /\ ~lam.force
    /\ \E a, b \in lam.snap.names :
         /\ a \in lam.called
         /\ a \in DOMAIN lam.snap.cache
         /\ lam.snap.at - lam.snap.last[a] = CacheTTL
         /\ b \notin lam.called

\* C10: a call in which a provider's list_models raised returns a map with the
\* empty list for it and the fetched or cached list for every other provider,
\* and leaves the other providers' cache entries and timestamps alone.
C10_FailureIsolated ==
    (lam.pc = "returned" /\ lam.failed # {}) =>
        /\ DOMAIN lam.all_models = lam.snap.names
        /\ \A name \in lam.failed : lam.all_models[name] = <<>>
        /\ \A name \in lam.called \ lam.failed :
             /\ lam.all_models[name] \in {<<>>, Models(name, fetchCalls[name])}
             /\ name \in DOMAIN model_cache /\ name \in DOMAIN last_refresh
             /\ model_cache[name] = lam.all_models[name]
             /\ last_refresh[name] >= lam.snap.at
        /\ \A name \in lam.snap.names \ lam.called :
             /\ lam.all_models[name] = lam.snap.cache[name]
             /\ name \in DOMAIN model_cache /\ name \in DOMAIN last_refresh
             /\ model_cache[name] = lam.snap.cache[name]
             /\ last_refresh[name] = lam.snap.last[name]
\* One provider failed beside one that was served from the cache.
C10_Witness ==
    /\ lam.pc = "returned"
    /\ \E a, b \in lam.snap.names :
         /\ a \in lam.failed
         /\ b \notin lam.called
         /\ lam.all_models[b] # <<>>
         /\ model_cache[b] = lam.snap.cache[b]

\* C11: a search_models call makes no list_models call on any adapter and leaves
\* the cached lists and their timestamps as they were when it began.
C11_SearchNeverFetches ==
    search.pc \in {"listing", "returned"} =>
        /\ lam.called = {}
        /\ model_cache = lam.snap.cache
        /\ last_refresh = lam.snap.last

C13_ClassificationIsFinal ==
    [][\A m \in DOMAIN agent_types :
          agent_types[m] \in {"openai", "langserve"} =>
              (m \in DOMAIN agent_types' /\ agent_types'[m] = agent_types[m])]_vars

\* C14: a chat_completion call for a model id cached as "unknown" runs the
\* detection probes again.
C14_UnknownIsReprobed ==
    (base_url /\ lastCall.op = "chat_completion" /\ lastCall.before = "unknown")
        => lastCall.probed

\* ------------------------------------------------ claims: the graph payload
\* The payload was built.
Prepared == payload # NoPayload
\* The properties the schema declares (none without a schema).
Declared == IF input_schema.present THEN input_schema.properties ELSE {}
\* The text of the latest user message of the history.
RECURSIVE LatestUserText(_, _)
LatestUserText(msgs, i) ==
    IF i = 0 THEN EmptyText
    ELSE IF msgs[i].role = "user" THEN msgs[i].content ELSE LatestUserText(msgs, i - 1)
IsMessagesInput == payload.input.key = "messages" /\ payload.input.value = chat_messages
IsPropertyInput(p, text) ==
    payload.input.kind = "object" /\ payload.input.key = p /\ payload.input.value = text
\* The schema is read as an object schema.
ObjectLike ==
    Truthy(input_schema) /\ (input_schema.type = "object" \/ input_schema.hasProperties)

\* C15 (as claimed): messages declared -> the history; else exactly one property
\* p -> {p: latest user text}; in every other case -> {messages: history}.
C15_InputRule ==
    Prepared =>
        IF "messages" \in Declared THEN IsMessagesInput
        ELSE IF Cardinality(Declared) = 1
        THEN \E p \in Declared : IsPropertyInput(p, LatestUserText(chat_messages, Len(chat_messages)))
        ELSE IsMessagesInput
\* C15 (amended): for an object schema, messages declared -> the history; else
\* exactly one property p -> {p: last message}; else the first of topic, input,
\* question that is declared -> {that name: last message}; else the history. For
\* a schema of type string that is not an object schema -> the bare last message.
\* In every other case -> {messages: history}.
C15_InputRuleWithNamedFallbacks ==
    Prepared =>
        LET last == LastMessage(chat_messages)
            named == Declared \cap {"topic", "input", "question"}
        IN
        CASE ObjectLike /\ "messages" \in Declared -> IsMessagesInput
          [] ObjectLike /\ "messages" \notin Declared /\ Cardinality(Declared) = 1 ->
               \E p \in Declared : IsPropertyInput(p, last)
          [] ObjectLike /\ "messages" \notin Declared /\ Cardinality(Declared) # 1
                /\ named # {} ->
               IsPropertyInput(IF "topic" \in named THEN "topic"
                               ELSE IF "input" \in named THEN "input" ELSE "question", last)
          [] ~ObjectLike /\ Truthy(input_schema) /\ input_schema.type = "string" ->
               payload.input.kind = "string" /\ payload.input.value = last
          [] OTHER -> IsMessagesInput
\* Two properties without messages, one of them named input.
C15_Witness ==
    /\ Prepared
    /\ Declared = {"input", "query"}
    /\ Len(chat_messages) = 2
    /\ IsPropertyInput("input", chat_messages[2].content)

\* C16: the payload has a config.configurable object, holding the temperature
\* and the pass-through parameters, exactly when the mapped input is an object.
C16_ConfigIffObjectInput ==
    Prepared =>
        /\ ("config" \in DOMAIN payload) <=> (payload.input.kind = "object")
        /\ (payload.input.kind = "string") <=>
               (~ObjectLike /\ Truthy(input_schema) /\ input_schema.type = "string")
        /\ ("config" \in DOMAIN payload) =>
               payload.config.configurable = [temperature |-> "0.7", kwargs |-> kwargs]
\* A bare string input, with pass-through parameters given, and no config.
C16_Witness ==
    /\ Prepared
    /\ payload.input.kind = "string"
    /\ Len(chat_messages) > 0
    /\ payload.input.value = LastMessage(chat_messages)
    /\ kwargs # {}
    /\ "config" \notin DOMAIN payload

\* ------------------------------------------------ claims: follow-ups
\* C20: generate_follow_ups returns at most five suggestions and does not
\* raise; it returns none when the provider is missing or the completion fails;
\* and the turn persists its one assistant message with the accumulated text,
\* the follow_ups metadata being there exactly when suggestions were returned.
C20_FollowUpsNeverFailTurn ==
    fuResult.ran =>
        /\ Len(fuResult.follow_ups) <= MaxFollowUps
        /\ (~fuFound \/ fuReply.raises) => fuResult.follow_ups = <<>>
        /\ gen.pc # "raised"
        /\ messages = << Message("user", Hi, "this", FALSE),
                         Message("assistant", Hi, "this", fuResult.follow_ups # <<>>) >>
\* The follow-up completion raised and the message was saved without follow-ups.
C20_Witness ==
    /\ fuResult.ran
    /\ fuFound /\ fuReply.raises
    /\ fuResult.follow_ups = <<>>
    /\ AssistantSaves = 1
    /\ ~messages[Len(messages)].follow_ups

\* ------------------------------------------------ claims: order within a turn
\* The stream_chunk events that forward adapter chunks, in emission order.
AdapterChunkEvents ==
    SelectSeq(events, LAMBDA e : e.name = "stream_chunk" /\ ~e.follow_ups)

C22_StreamEndIsThisTurn ==
    \A i \in 1..Len(events) :
        events[i].name = "stream_end" => events[i].source # "earlier"

\* Positions of step in the generator's log.
StepsAt(step) == { i \in 1..Len(gen.log) : gen.log[i] = step }

C26_ExtractionOncePerPersist ==
    AssistantSaves >= 1 =>
        /\ Cardinality(StepsAt("extract")) = 1
        /\ \A x \in StepsAt("extract") : \E p \in StepsAt("save") : p < x

\* The generator was resumed after it yielded a done chunk.
ResumedAfterDone ==
    \E i \in 1..(gen.idx - (IF gen.pc = "afterYield" THEN 1 ELSE 0)) :
        i <= Len(upstream.chunks) /\ upstream.chunks[i].done
\* The bridge left its loop at the stop check: the generator stays suspended.
StoppedAtCheck ==
    /\ pc \in {"after_loop", "finally", "done"}
    /\ gen.pc \in {"afterYield", "afterFollowUps", "afterFinalFollowUps"}

\* C30: an assistant message is persisted only if the generator was resumed
\* after a done chunk or exhausted the adapter's sequence; a turn stopped
\* before that, also at the check for the done chunk itself, persisted none.
C30_StopPersistsNothing ==
    /\ AssistantSaves >= 1 => (ResumedAfterDone \/ gen.flushes >= 1)
    /\ (StoppedAtCheck /\ gen.pc = "afterYield" /\ ~ResumedAfterDone) => AssistantSaves = 0
\* The stop was observed at the check for the done chunk, with content
\* accumulated, and the turn ended with nothing persisted.
C30_Witness ==
    /\ pc = "done"
    /\ StoppedAtCheck
    /\ gen.pc = "afterYield"
    /\ gen.last_done
    /\ gen.full_content # EmptyText
    /\ AssistantSaves = 0

\* ------------------------------------------------ claims: the REST endpoint
\* C23: a request to the REST streaming endpoint whose adapter emits a done
\* chunk ends with exactly one persisted assistant message.
C23_RestPersistsOnce ==
    (/\ rest.pc = "done"
     /\ ~rest.aborted
     /\ providerRegistered
     /\ HasDone(upstream.chunks))
    => AssistantSaves = 1

\* ------------------------------------------------ claims: graph-protocol frames
\* A data frame that is not valid JSON, or matches none of the three formats.
Unmatched(line) == line.kind \in {"badjson", "object", "scalar", "opsbad"}

\* C28: in graph-protocol streaming a data frame that is not valid JSON or
\* matches none of the three formats has no effect on the chunks produced: the
\* output is the output for the body without these frames.
C28_UnmatchedFramesAreSkipped ==
    (protocol = "langserve" /\ emitted.ran) =>
        emitted.chunks = _stream_langserve(SelectSeq(body, LAMBDA l : ~Unmatched(l)))

\* ------------------------------------------------ claims: list_models
\* The types list_models marked in the call.
MarkedTypes == { p[2] : p \in listed.marked }
\* The ids of the entries of a /v1/models answer that hold one.
EntryIds(data) == { data[i].id : i \in { j \in 1..Len(data) : data[j].kind = "id" } }

\* C27: on a configured instance list_models classifies by probe order: a 200
\* answer of /v1/models with a non-empty list gives its ids, marked openai,
\* without a request for openapi.json; otherwise the /invoke paths of
\* openapi.json without path parameters give their stripped ids, marked
\* langserve; otherwise the one model external-agent, marked unknown. One call
\* marks ids of one type only.
C27_ClassifiedByProbeOrder ==
    (listed.ran /\ base_url) =>
        LET v1 == listing.v1
            invoke == { p \in listing.openapi.paths : p.tail = "invoke" /\ ~p.templated }
        IN /\ IF v1.ok /\ v1.data # <<>>
              THEN /\ listed.ids = EntryIds(v1.data)
                   /\ MarkedTypes \subseteq {"openai"}
                   /\ ~listed.probed
              ELSE IF listing.openapi.ok /\ invoke # {}
              THEN /\ listed.ids = { p.id : p \in invoke }
                   /\ MarkedTypes = {"langserve"}
              ELSE /\ listed.ids = {ExternalAgent}
                   /\ MarkedTypes = {"unknown"}
           /\ Cardinality(MarkedTypes) <= 1

\* ------------------------------------------------ claims: regenerate
\* The user messages among msgs.
UserIds(msgs) == { msgs[i].id : i \in { j \in 1..Len(msgs) : msgs[j].role = "user" } }
\* The id of the most recent message of msgs with the role (0: none).
RECURSIVE LastWithRole(_, _, _)
LastWithRole(msgs, role, i) ==
    IF i = 0 THEN 0
    ELSE IF msgs[i].role = role THEN msgs[i].id ELSE LastWithRole(msgs, role, i - 1)

\* C24: a regenerate turn saves no user message, has deleted the most recent
\* assistant message of the conversation, and only that one, by the time the
\* completion is called, and enriches in the prompt the most recent user
\* message and no other.
C24_RegenerateReplacesLastAnswer ==
    (regen.pc \in {"prepared", "dispatched"} /\ regen.regenerate) =>
        LET before == regen.before
            a == LastWithRole(before, "assistant", Len(before))
            u == LastWithRole(before, "user", Len(before))
        IN /\ UserIds(messages) = UserIds(before)
           /\ regen.deleted = (IF a = 0 THEN {} ELSE {a})
           /\ \A i \in 1..Len(messages) : messages[i].id # a
           /\ \A i \in 1..Len(regen.prompt) :
                 regen.prompt[i].enriched <=> (regen.prompt[i].id = u)

C32_EarlyStopIsDiscarded ==
    [][/\ (pc = "idle" /\ pc' = "start") => ConvId \notin stopped_generations'
       /\ (ConvId \notin stopped_generations /\ ConvId \in stopped_generations')
            => stops' = stops + 1
       /\ (pc = "check" /\ pc' = "after_loop") => ConvId \in stopped_generations]_vars
\* A stop request came before the turn started, and the turn forwarded its
\* chunks and ran to the generator's end.
C32_Witness ==
    /\ pc = "done"
    /\ gen.pc = "closed"
    /\ Len(events) >= 3
    /\ events[1].name = "generation_stopped"
    /\ events[2].name = "stream_start"
    /\ \E i \in 1..Len(events) : events[i].name = "stream_chunk"

\* ------------------------------------------------ claims: failed turns
\* C35: a turn that failed (the provider is not registered, or the adapter
\* raised while streaming) added no message to the conversation.
C35_FailedTurnAddsNothing ==
    (pc = "done" /\ gen.pc = "raised") =>
        \A i \in 1..Len(messages) : messages[i].turn # "this"

\* The contents of the stream_chunk events, concatenated in emission order.
RECURSIVE ChunkText(_, _)
ChunkText(e, i) ==
    IF i > Len(e) THEN EmptyText
    ELSE (IF e[i].name = "stream_chunk" THEN e[i].content ELSE EmptyText) \o ChunkText(e, i + 1)

\* C36: when a streaming turn that was not stopped has ended, every assistant
\* message it persisted holds the concatenation of the contents of the
\* stream_chunk events emitted for the turn.
C36_PersistedEqualsForwarded ==
    (pc = "done" /\ ~StoppedAtCheck) =>
        \A i \in 1..Len(messages) :
            (messages[i].role = "assistant" /\ messages[i].turn = "this")
            => messages[i].content = ChunkText(events, 1)

\* ------------------------------------------------ claims: failed discovery
\* The discovery of a provider failed in the call that has returned: its
\* list_models raised, or it is the agent adapter and returned the empty list.
DiscoveryFailed(name) ==
    /\ lam.pc = "returned"
    /\ name \in lam.called
    /\ name \in DOMAIN lam.all_models
    /\ \/ name \in lam.failed
       \/ get_provider(name).type = "agent" /\ lam.all_models[name] = <<>>

\* C38: once a call in which a provider's discovery failed has returned, a
\* list_all_models(force_refresh=False) does not serve that provider from the cache.
C38_FailedDiscoveryNotCached ==
    \A name \in list_providers :
        DiscoveryFailed(name) => ~ServedFromCache(name, FALSE)

\* ------------------------------------------------ claims: reinitialization
\* The four built-in providers as the except branch registers them.
DefaultsMap == [name \in ProviderTypes |-> Instance(name, reinits)]

\* C33: once initialize_providers has returned, every list in the model cache
\* was fetched from the instance registered under its provider id.
C33_CacheIsOfRegisteredInstance ==
    (init.pc = "idle" /\ reinits > 0) =>
        \A name \in DOMAIN model_cache :
            model_cache[name] # <<>> =>
                /\ name \in list_providers
                /\ model_cache[name][1].built = get_provider(name).built

C31_FlagKeptUntilObserved ==
    [][\A t \in TurnIds :
         (/\ ConvId \in stopped_generations
          /\ turns[t].pc = "streaming"
          /\ turns'[t].pc = "streaming")
         => ConvId \in stopped_generations']_vars

\* ------------------------------------------------ claims: done chunk of a stream
\* C37: a streaming call that ended without raising has yielded at least one
\* chunk with done set.
C37_StreamHasDoneChunk ==
    (emitted.ran /\ ~emitted.raises) =>
        \E i \in 1..Len(emitted.chunks) : emitted.chunks[i].done

=============================================================================
